---- MODULE Spec2Model ----
(***************************************************************************)
(* Split UNO arbiter, version 3.0 (src/arbiter.cpp, class SplitUnoArbiter   *)
(* from line 754 on): the player ledger, the two deck pools, the number     *)
(* round, the action card handlers, the consecutive-win bonus and the win   *)
(* / challenge evaluation, as the menu loop of run() drives them.           *)
(*                                                                          *)
(* A number round is one call of handleNumberRound.  Its loops are taken    *)
(* one iteration per step, in the order the code runs them, and pc / idx    *)
(* hold the position inside the call:                                       *)
(*   "menu"     run() waits for the next menu choice                        *)
(*   "effects"  loop 2 of handleNumberRound (cards 0 and 7), player idx     *)
(*   "resolve"  step 3 of handleNumberRound (winner / tie)                  *)
(*   "bonus"    checkConsecutiveWins, player idx                            *)
(*   "win"      checkWinCondition, player idx                               *)
(*   "done"     the while loop of run() has ended (gameOver)                *)
(* An action card is one step: handleActionCard and the handler it calls.   *)
(***************************************************************************)
EXTENDS Integers, Sequences, FiniteSets, TLC

(***************************************************************************)
(* Program constants (src/arbiter.cpp:757-765, 1278).                       *)
(***************************************************************************)
CONSECUTIVE_WINS_THRESHOLD == 2
MAX_CARD_NUMBER == 9
MIN_CARD_NUMBER == 0
CARD_7_NUMBER_DRAW == 2
CARD_7_ACTION_DRAW == 1
\* setupGame: "int numPlayers = 2;"
numPlayers == 2

(***************************************************************************)
(* Bounds of the model.  INITIAL_CARDS = 20, INITIAL_NUMBER_DECK = 68 and   *)
(* INITIAL_ACTION_DECK = 32 put the first exhausted pool dozens of rounds   *)
(* away, so the model starts in the part of the state space where the       *)
(* pools and hands are small.  run() reaches every ledger of that part:     *)
(* each pool only falls, one card at a time if need be (a lost round draws  *)
(* 1 number card, a 7 draws 1 action card), and manualAdjustment sets       *)
(* either count of any player to any value in 0..100 / 0..50.               *)
(*   MaxNumberDeck    numberDeckRemaining at the start                      *)
(*   MaxNumberTotal   number cards in the hands and the pool together       *)
(*   MaxActionDeck    actionDeckRemaining at the start                      *)
(*   MaxActionTotal   action cards in the hands and the pool together       *)
(***************************************************************************)
MaxNumberDeck == 4
MaxNumberTotal == 5
MaxActionDeck == 1
MaxActionTotal == 2

\* the player counts setupGame can set up
SetupPlayerCounts == {numPlayers}
Players == 0 .. (numPlayers - 1)
\* the names typed in at setupGame ("cin >> name").  setupGame does not refuse
\* a name typed twice: Spec starts with two different names, SpecSameName
\* with one name for all.  A name is read in two places only: "opp.name !=
\* p.name" in checkConsecutiveWins and the winner's name.
PlayerNames == <<"A", "B">>
Names == {PlayerNames[k] : k \in 1 .. Len(PlayerNames)}
NoWinner == ""
\* The numbers typed in for a card.  The round reads a declared value only
\* through "== 0", "== 7" and the comparison with the running maximum, so one
\* value of each kind is typed: 0, a plain value below 7, 7, a plain value
\* above, and one number on each side of MIN_CARD_NUMBER..MAX_CARD_NUMBER.
DeclaredValues == {-1, 0, 3, 7, 9, 10}

\* getValidatedInt(MIN_CARD_NUMBER, MAX_CARD_NUMBER): what it can return
CardValues == {v \in DeclaredValues : v >= MIN_CARD_NUMBER /\ v <= MAX_CARD_NUMBER}
NoCard == -1

VARIABLES
    name,                 \* Player::name
    numberCards,          \* Player::numberCards
    actionCards,          \* Player::actionCards
    consecutiveWins,      \* Player::consecutiveWins
    isBlocked,            \* Player::isBlocked
    numberDeckRemaining,
    actionDeckRemaining,
    gameOver,
    winner,
    pc,                   \* position of the control flow (see above)
    idx,                  \* loop variable i of the loop pc names
    playedCards,          \* handleNumberRound: vector<int> playedCards
    winners,              \* handleNumberRound: vector<int> winners
    game                  \* the web page: its Game object, DOM marks and timeouts

vars == <<name, numberCards, actionCards, consecutiveWins, isBlocked,
          numberDeckRemaining, actionDeckRemaining, gameOver, winner,
          pc, idx, playedCards, winners, game>>

ledger == <<numberCards, actionCards, consecutiveWins, isBlocked,
            numberDeckRemaining, actionDeckRemaining>>

Min(a, b) == IF a < b THEN a ELSE b
Max(a, b) == IF a > b THEN a ELSE b

(***************************************************************************)
(* Deck.  The value returned by the draw; the caller's pool falls by it.    *)
(***************************************************************************)
\* mutant: the draw is not capped at what the pool holds
drawFromNumberDeckUncapped(amount, remaining) == amount
\* mutant: a pool that cannot serve the whole draw serves nothing
drawFromNumberDeckAllOrNothing(amount, remaining) ==
    IF remaining < amount THEN 0 ELSE amount

drawFromNumberDeck(amount, remaining) ==
    IF remaining <= 0 THEN 0 ELSE Min(amount, remaining)
\* mutant: the draw is not capped at what the pool holds
drawFromActionDeckUncapped(amount, remaining) == amount

drawFromActionDeck(amount, remaining) ==
    IF remaining <= 0 THEN 0 ELSE Min(amount, remaining)

\* mutant: the pool is not lowered by what is drawn
RECURSIVE drawLoopKeepsDeck(_, _, _, _, _)
drawLoopKeepsDeck(i, amount, who, nc, deck) ==
    IF i >= numPlayers THEN [nc |-> nc, deck |-> deck]
    ELSE IF i \in who
         THEN LET d == IF deck <= 0 THEN 0 ELSE Min(amount, deck)
              IN  drawLoopKeepsDeck(i + 1, amount, who, [nc EXCEPT ![i] = @ + d], deck)
         ELSE drawLoopKeepsDeck(i + 1, amount, who, nc, deck)

\* "for each player i in who, in player order: numberCards += draw(amount)"
RECURSIVE drawLoop(_, _, _, _, _)
drawLoop(i, amount, who, nc, deck) ==
    IF i >= numPlayers THEN [nc |-> nc, deck |-> deck]
    ELSE IF i \in who
         THEN LET d == drawFromNumberDeck(amount, deck)
              IN  drawLoop(i + 1, amount, who, [nc EXCEPT ![i] = @ + d], deck - d)
         ELSE drawLoop(i + 1, amount, who, nc, deck)

noCards == [i \in Players |-> NoCard]

\* mutant: the excluded index is not refused
getValidatedPlayerIndexAllowsSelf(excludeIndex) == Players

\* the indices getValidatedPlayerIndex can return: 1..players.size() less 1,
\* the excluded index refused
getValidatedPlayerIndex(excludeIndex) == {i \in Players : i # excludeIndex}

\* the cards of one kind in all hands
RECURSIVE sumFrom(_, _)
sumFrom(i, f) == IF i >= numPlayers THEN 0 ELSE f[i] + sumFrom(i + 1, f)

(***************************************************************************)
(* The web application (src/app/js): construction                          *)
(*                                                                         *)
(* The page holds one Game object.  Its fields, the fields of its two      *)
(* players, the part of the DOM its handlers read, and the callbacks the   *)
(* page has handed to setTimeout and that have not run yet, are the record *)
(* "game".  A card is its id; a hand is a bag of ids, because the code can *)
(* put one Card object into a hand twice.                                  *)
(***************************************************************************)
WebNumberCards == 6     \* cards of the number deck (Deck.reset builds 76)
WebActionCards == 4     \* cards of the action deck (Deck.reset builds 32)
WebDeal == 2            \* cards dealt to each side (dealInitialCards: 20)
MaxRounds == 3          \* roundCount stops here
MaxTimeouts == 2        \* callbacks scheduled and not yet run

\* Card.value of the cards of the two decks, by id
NumberValues == <<9, 9, 0, 7, 3, 7, 0, 5, 9>>
ActionValues == <<"block", "wild", "reverse", "draw2", "wild_draw4", "block", "reverse">>

NumberIds == 1 .. WebNumberCards
ActionIds == 101 .. 100 + WebActionCards
null == 0
cardValue(c) == IF c \in NumberIds THEN NumberValues[c] ELSE ActionValues[c - 100]

\* new Player(name): empty hands, no wins, not blocked
newPlayer ==
    [numberHand |-> [c \in NumberIds |-> 0],
     actionHand |-> [c \in ActionIds |-> 0],
     consecutiveWins |-> 0,
     isBlocked |-> FALSE]

\* new Game(ui) and new UI(): the main menu is the screen shown, no modal is
\* open, nothing is scheduled.  The three "disabled" marks are written by
\* start() before any handler reads them.
newGame ==
    [state |-> "MENU",
     currentPhase |-> "null",
     roundCount |-> 0,
     numberDeck |-> NumberIds,
     actionDeck |-> ActionIds,
     player |-> newPlayer,
     ai |-> newPlayer,
     tempPlayedCards |-> [player |-> null, ai |-> null],
     screen |-> "main-menu",
     playerHandDisabled |-> FALSE,
     playerActionHandDisabled |-> FALSE,
     playActionBtnDisabled |-> FALSE,
     modal |-> "hidden",
     pickerCard |-> null,
     shownWinner |-> "",
     timeouts |-> << >>]

\* the state run() starts its menu loop in, for the names typed in at setup
InitWith(names) ==
    /\ name = names
    /\ numberCards \in [Players -> 0 .. MaxNumberTotal]
    /\ actionCards \in [Players -> 0 .. MaxActionTotal]
    /\ consecutiveWins = [i \in Players |-> 0]
    /\ isBlocked = [i \in Players |-> FALSE]
    /\ numberDeckRemaining \in 0 .. MaxNumberDeck
    /\ actionDeckRemaining \in 0 .. MaxActionDeck
    /\ sumFrom(0, numberCards) + numberDeckRemaining <= MaxNumberTotal
    /\ sumFrom(0, actionCards) + actionDeckRemaining <= MaxActionTotal
    /\ gameOver = FALSE
    /\ winner = NoWinner
    /\ pc = "menu"
    /\ idx = 0
    /\ playedCards = noCards
    /\ winners = << >>
    /\ game = newGame

Init == InitWith([i \in Players |-> PlayerNames[i + 1]])

\* setupGame takes any word for a name ("cin >> name"), also the same word
\* for every player
SameName == [i \in Players |-> PlayerNames[1]]
InitSameName == InitWith(SameName)

(***************************************************************************)
(* handleNumberRound                                                        *)
(***************************************************************************)
\* mutant: ">=" for ">": a later player with the same card wins alone
RECURSIVE collectWinnersLastMax(_, _, _, _)
collectWinnersLastMax(i, played, maxCard, w) ==
    IF i >= numPlayers THEN w
    ELSE IF played[i] = NoCard THEN collectWinnersLastMax(i + 1, played, maxCard, w)
    ELSE IF played[i] >= maxCard THEN collectWinnersLastMax(i + 1, played, played[i], <<i>>)
    ELSE collectWinnersLastMax(i + 1, played, maxCard, w)

\* loop 1: the running maximum and the players tied for it
RECURSIVE collectWinners(_, _, _, _)
collectWinners(i, played, maxCard, w) ==
    IF i >= numPlayers THEN w
    ELSE IF played[i] = NoCard THEN collectWinners(i + 1, played, maxCard, w)
    ELSE IF played[i] > maxCard THEN collectWinners(i + 1, played, played[i], <<i>>)
    ELSE IF played[i] = maxCard THEN collectWinners(i + 1, played, maxCard, Append(w, i))
    ELSE collectWinners(i + 1, played, maxCard, w)

\* mutant: the menu loop goes on after the game is over
afterHandlerLoopsOn(over) == "menu"

\* run(): "while (!gameOver)" after a handler has returned
afterHandler(over) == IF over THEN "done" ELSE "menu"

\* loop 1: blocked players are unblocked and marked -1, the others declare
CollectPlays(declared) ==
    /\ pc = "menu"
    /\ LET played == [i \in Players |-> IF isBlocked[i] THEN NoCard ELSE declared[i]]
       IN  /\ playedCards' = played
           /\ winners' = collectWinners(0, played, -1, << >>)
    /\ isBlocked' = [i \in Players |-> FALSE]
    /\ pc' = "effects"
    /\ idx' = 0
    /\ UNCHANGED <<name, numberCards, actionCards, consecutiveWins,
                   numberDeckRemaining, actionDeckRemaining, gameOver, winner>>

\* mutant: the winner is resolved once the first player's card is handled
afterEffectsResolvesEarly(i) ==
    IF winners = << >> THEN "menu" ELSE "resolve"
\* mutant: the "winners.empty()" return is missing
afterEffectsAlwaysResolves(i) ==
    IF i + 1 < numPlayers THEN "effects" ELSE "resolve"

\* where handleNumberRound goes once loop 2 has handled player i
afterEffects(i) ==
    IF i + 1 < numPlayers THEN "effects"
    ELSE IF winners = << >> THEN "menu" ELSE "resolve"

\* mutant: the "numberCards > 0" test is missing on the taking side
stealOneCreates(i, targetIdx, nc) ==
    [nc EXCEPT ![i] = @ + 1, ![targetIdx] = Max(0, @ - 1)]

\* card 0: "if (players[targetIdx].numberCards > 0) { ++; --; }"
stealOne(i, targetIdx, nc) ==
    IF nc[targetIdx] > 0
    THEN [nc EXCEPT ![i] = @ + 1, ![targetIdx] = @ - 1]
    ELSE nc

\* loop 2, iteration idx: card 0 steals, card 7 makes the target draw
EffectsStep(targetIdx) ==
    /\ pc = "effects"
    /\ IF playedCards[idx] = 0
       THEN /\ numberCards' = stealOne(idx, targetIdx, numberCards)
            /\ UNCHANGED <<actionCards, numberDeckRemaining, actionDeckRemaining>>
       ELSE IF playedCards[idx] = 7
       THEN LET numDrawn == drawFromNumberDeck(CARD_7_NUMBER_DRAW, numberDeckRemaining)
                actDrawn == drawFromActionDeck(CARD_7_ACTION_DRAW, actionDeckRemaining)
            IN  /\ numberDeckRemaining' = numberDeckRemaining - numDrawn
                /\ actionDeckRemaining' = actionDeckRemaining - actDrawn
                /\ numberCards' = [numberCards EXCEPT ![targetIdx] = @ + numDrawn]
                /\ actionCards' = [actionCards EXCEPT ![targetIdx] = @ + actDrawn]
       ELSE UNCHANGED <<numberCards, actionCards, numberDeckRemaining, actionDeckRemaining>>
    /\ pc' = afterEffects(idx)
    /\ idx' = IF afterEffects(idx) = "effects" THEN idx + 1 ELSE 0
    /\ playedCards' = IF afterEffects(idx) = "menu" THEN noCards ELSE playedCards
    /\ UNCHANGED <<name, consecutiveWins, isBlocked, gameOver, winner, winners>>
\* mutant: the "playedCards[i] != -1" test is missing
singleWinnerLosersAnyPlayer(winnerIdx, played) == {i \in Players : i # winnerIdx}

\* mutant: "> 0" for "!= -1": a declared 0 is taken for no card
singleWinnerLosersZeroIsNoCard(winnerIdx, played) ==
    {i \in Players : i # winnerIdx /\ played[i] > 0}

\* the players who draw the penalty when winnerIdx wins alone
singleWinnerLosers(winnerIdx, played) ==
    {i \in Players : i # winnerIdx /\ played[i] # NoCard}
\* mutant: only the players below the tie draw
tieDrawersBelowTie(played) ==
    {i \in Players : played[i] # NoCard /\ \E j \in Players : played[j] > played[i]}

\* the players who draw after a tie: "for (auto& p : players)"
tieDrawers(played) == Players

\* "Tied players shed 1 card", consecutiveWins reset
RECURSIVE tieShed(_, _, _)
tieShed(k, w, nc) ==
    IF k > Len(w) THEN nc
    ELSE tieShed(k + 1, w, [nc EXCEPT ![w[k]] = Max(0, @ - 1)])

\* step 3: one winner, or a tie
ResolveWinner ==
    /\ pc = "resolve"
    /\ IF Len(winners) = 1
       THEN LET winnerIdx == winners[1]
                losers == singleWinnerLosers(winnerIdx, playedCards)
                shed == [numberCards EXCEPT ![winnerIdx] = Max(0, @ - 1)]
                r == drawLoop(0, 1, losers, shed, numberDeckRemaining)
            IN  /\ numberCards' = r.nc
                /\ numberDeckRemaining' = r.deck
                /\ consecutiveWins' =
                       [i \in Players |->
                           IF i = winnerIdx THEN consecutiveWins[i] + 1
                           ELSE IF i \in losers THEN 0
                           ELSE consecutiveWins[i]]
       ELSE LET shed == tieShed(1, winners, numberCards)
                r == drawLoop(0, 1, tieDrawers(playedCards), shed, numberDeckRemaining)
                tied == {winners[k] : k \in 1 .. Len(winners)}
            IN  /\ numberCards' = r.nc
                /\ numberDeckRemaining' = r.deck
                /\ consecutiveWins' =
                       [i \in Players |-> IF i \in tied THEN 0 ELSE consecutiveWins[i]]
    /\ pc' = "bonus"
    /\ idx' = 0
    \* playedCards and winners are not read again in this call
    /\ playedCards' = noCards
    /\ winners' = << >>
    /\ UNCHANGED <<name, actionCards, isBlocked, actionDeckRemaining, gameOver, winner>>

(***************************************************************************)
(* checkConsecutiveWins, iteration idx                                      *)
(***************************************************************************)
\* "if (opp.name != p.name)"
opponents(p) == {i \in Players : name[i] # name[p]}

\* mutant: the counter is left as it is when the bonus has been taken
bonusClaimedKeepsStreak(cw, p) == cw

\* "p.consecutiveWins = 0" after the bonus
bonusClaimed(cw, p) == [cw EXCEPT ![p] = 0]

BonusStep(choice) ==
    /\ pc = "bonus"
    /\ IF consecutiveWins[idx] >= CONSECUTIVE_WINS_THRESHOLD
       THEN /\ IF choice = 1
               THEN LET d == drawFromActionDeck(1, actionDeckRemaining)
                    IN  /\ actionCards' = [actionCards EXCEPT ![idx] = @ + d]
                        /\ actionDeckRemaining' = actionDeckRemaining - d
                        /\ UNCHANGED <<numberCards, numberDeckRemaining>>
               ELSE LET r == drawLoop(0, 2, opponents(idx), numberCards, numberDeckRemaining)
                    IN  /\ numberCards' = r.nc
                        /\ numberDeckRemaining' = r.deck
                        /\ UNCHANGED <<actionCards, actionDeckRemaining>>
            /\ consecutiveWins' = bonusClaimed(consecutiveWins, idx)
       ELSE UNCHANGED <<numberCards, actionCards, consecutiveWins,
                        numberDeckRemaining, actionDeckRemaining>>
    /\ pc' = IF idx + 1 < numPlayers THEN "bonus" ELSE "win"
    /\ idx' = IF idx + 1 < numPlayers THEN idx + 1 ELSE 0
    /\ UNCHANGED <<name, isBlocked, gameOver, winner, playedCards, winners>>

(***************************************************************************)
(* checkWinCondition, iteration idx, with its call of handleDrawChallenge   *)
(***************************************************************************)
YesNo == {"Y", "N", "YES", "NO"}
DrawCards == {"+2", "+4"}
\* mutant: every challenge or counter card counts as a +2
drawCardAmountAlwaysTwo(cardType) == 2

\* "int amount = (cardType == "+2") ? 2 : 4;"
drawCardAmount(cardType) == IF cardType = "+2" THEN 2 ELSE 4

\* mutant: the loop steps over the player after a challenged one
nextWinIdxSkipsOne(i) == i + 2

\* mutant: after the last player the loop starts over with the first
nextWinIdxStartsOver(i) == (i + 1) % numPlayers

\* the loop variable after iteration i of checkWinCondition
nextWinIdx(i) == i + 1
\* mutant: a player with one card left is taken for a winner too
atZeroOrOne(i) == numberCards[i] <= 1

\* "if (players[i].numberCards == 0)": player i enters the challenge phase
atZero(i) == numberCards[i] = 0

WinStep(challenge, challengerIdx, cardType) ==
    /\ pc = "win"
    /\ IF atZero(idx)
       THEN IF challenge = "N" \/ challenge = "NO"
            THEN /\ gameOver' = TRUE
                 /\ winner' = name[idx]
                 /\ pc' = "done"
                 /\ idx' = 0
                 /\ UNCHANGED <<numberCards, actionCards, numberDeckRemaining>>
            ELSE LET amount == drawCardAmount(cardType)
                     d == drawFromNumberDeck(amount, numberDeckRemaining)
                 IN  /\ numberCards' = [numberCards EXCEPT ![idx] = @ + d]
                     /\ numberDeckRemaining' = numberDeckRemaining - d
                     /\ actionCards' = [actionCards EXCEPT ![challengerIdx] = Max(0, @ - 1)]
                     /\ pc' = IF nextWinIdx(idx) < numPlayers THEN "win" ELSE "menu"
                     /\ idx' = IF nextWinIdx(idx) < numPlayers THEN nextWinIdx(idx) ELSE 0
                     /\ UNCHANGED <<gameOver, winner>>
       ELSE /\ pc' = IF idx + 1 < numPlayers THEN "win" ELSE "menu"
            /\ idx' = IF idx + 1 < numPlayers THEN idx + 1 ELSE 0
            /\ UNCHANGED <<numberCards, actionCards, numberDeckRemaining, gameOver, winner>>
    /\ UNCHANGED <<name, consecutiveWins, isBlocked, actionDeckRemaining,
                   playedCards, winners>>

(***************************************************************************)
(* Action cards: handleActionCard and the handler it dispatches to          *)
(***************************************************************************)
ActionStrings == {"BLOCK", "SKIP", "REVERSE", "COLOR", "WILD", "+2", "+4", "TRUTH", "DARE"}

parseActionType(actionStr) ==
    CASE actionStr = "BLOCK" -> "BLOCK"
      [] actionStr = "SKIP" -> "SKIP"
      [] actionStr = "REVERSE" -> "REVERSE"
      [] actionStr = "COLOR" -> "COLOR_CHANGE"
      [] actionStr = "WILD" -> "WILD"
      [] actionStr = "+2" -> "DRAW_TWO"
      [] actionStr = "+4" -> "DRAW_FOUR"
      [] actionStr = "TRUTH" -> "TRUTH"
      [] actionStr = "DARE" -> "DARE"
      [] OTHER -> "UNKNOWN"

\* std::swap of two players' entries
\* mutant: a copy for an exchange
swapCopies(f, a, b) == [f EXCEPT ![a] = f[b]]

swap(f, a, b) == [f EXCEPT ![a] = f[b], ![b] = f[a]]

\* mutant: a countered Block costs the action cards only
handleBlockCardCounterKeepsNumbers(playerIdx, targetIdx, counter) ==
    /\ IF counter = "Y" \/ counter = "YES"
       THEN /\ actionCards' = [actionCards EXCEPT ![playerIdx] = Max(0, @ - 1),
                                                  ![targetIdx] = Max(0, @ - 1)]
            /\ UNCHANGED <<numberCards, isBlocked>>
       ELSE /\ isBlocked' = [isBlocked EXCEPT ![targetIdx] = TRUE]
            /\ actionCards' = [actionCards EXCEPT ![playerIdx] = Max(0, @ - 1)]
            /\ UNCHANGED numberCards
    /\ UNCHANGED <<consecutiveWins, numberDeckRemaining, actionDeckRemaining,
                   gameOver, winner>>

\* mutant: the block lands on the player who played it
handleBlockCardBlocksActor(playerIdx, targetIdx, counter) ==
    /\ IF counter = "Y" \/ counter = "YES"
       THEN /\ numberCards' = [numberCards EXCEPT ![playerIdx] = Max(0, @ - 1),
                                                  ![targetIdx] = Max(0, @ - 1)]
            /\ actionCards' = [actionCards EXCEPT ![playerIdx] = Max(0, @ - 1),
                                                  ![targetIdx] = Max(0, @ - 1)]
            /\ UNCHANGED isBlocked
       ELSE /\ isBlocked' = [isBlocked EXCEPT ![playerIdx] = TRUE]
            /\ actionCards' = [actionCards EXCEPT ![playerIdx] = Max(0, @ - 1)]
            /\ UNCHANGED numberCards
    /\ UNCHANGED <<consecutiveWins, numberDeckRemaining, actionDeckRemaining,
                   gameOver, winner>>

handleBlockCard(playerIdx, targetIdx, counter) ==
    /\ IF counter = "Y" \/ counter = "YES"
       THEN /\ numberCards' = [numberCards EXCEPT ![playerIdx] = Max(0, @ - 1),
                                                  ![targetIdx] = Max(0, @ - 1)]
            /\ actionCards' = [actionCards EXCEPT ![playerIdx] = Max(0, @ - 1),
                                                  ![targetIdx] = Max(0, @ - 1)]
            /\ UNCHANGED isBlocked
       ELSE /\ isBlocked' = [isBlocked EXCEPT ![targetIdx] = TRUE]
            /\ actionCards' = [actionCards EXCEPT ![playerIdx] = Max(0, @ - 1)]
            /\ UNCHANGED numberCards
    /\ UNCHANGED <<consecutiveWins, numberDeckRemaining, actionDeckRemaining,
                   gameOver, winner>>

\* the two counts of every player after handleReverseCard: swap, swap,
\* decrement the actor's actionCards, swap, swap
reverseResult(playerIdx, targetIdx, nc, ac) ==
    LET nc1 == swap(nc, playerIdx, targetIdx)
        ac1 == swap(ac, playerIdx, targetIdx)
        ac2 == [ac1 EXCEPT ![playerIdx] = Max(0, @ - 1)]
        nc3 == swap(nc1, playerIdx, targetIdx)
        ac3 == swap(ac2, playerIdx, targetIdx)
    IN  [nc |-> nc3, ac |-> ac3]

handleReverseCard(playerIdx, targetIdx) ==
    /\ LET r == reverseResult(playerIdx, targetIdx, numberCards, actionCards)
       IN  /\ numberCards' = r.nc
           /\ actionCards' = r.ac
    /\ UNCHANGED <<consecutiveWins, isBlocked, numberDeckRemaining,
                   actionDeckRemaining, gameOver, winner>>

handleColorChangeCard(playerIdx) ==
    /\ numberCards' = [i \in Players |-> Max(0, numberCards[i] - 1)]
    /\ actionCards' = [actionCards EXCEPT ![playerIdx] = Max(0, @ - 1)]
    /\ UNCHANGED <<consecutiveWins, isBlocked, numberDeckRemaining,
                   actionDeckRemaining, gameOver, winner>>

\* mutant: the loser draws the difference only
loserDrawIsDiff(amount, oppAmount) ==
    IF amount > oppAmount THEN amount - oppAmount ELSE oppAmount - amount

\* "int diff = abs(amount - oppAmount); int loserDraw = 1 + diff;"
loserDraw(amount, oppAmount) ==
    1 + (IF amount > oppAmount THEN amount - oppAmount ELSE oppAmount - amount)

\* mutant: ">=" for ">": equal cards count as a win of the actor
counterLosersTieToTarget(playerIdx, targetIdx, amount, oppAmount) ==
    IF amount >= oppAmount THEN {targetIdx}
    ELSE IF oppAmount > amount THEN {playerIdx}
    ELSE {}

\* who draws loserDraw after a counter; nobody when the cards are equal
counterLosers(playerIdx, targetIdx, amount, oppAmount) ==
    IF amount > oppAmount THEN {targetIdx}
    ELSE IF oppAmount > amount THEN {playerIdx}
    ELSE {}

\* mutant: the played card stays in the actor's hand
takesTheHitKeepsCard(playerIdx, amount, targetIdx) ==
    LET d == drawFromNumberDeck(amount, numberDeckRemaining)
    IN  /\ numberCards' = [numberCards EXCEPT ![targetIdx] = @ + d]
        /\ numberDeckRemaining' = numberDeckRemaining - d
        /\ actionCards' = actionCards

\* no counter: the target "takes the hit"
takesTheHit(playerIdx, amount, targetIdx) ==
    LET d == drawFromNumberDeck(amount, numberDeckRemaining)
    IN  /\ numberCards' = [numberCards EXCEPT ![targetIdx] = @ + d]
        /\ numberDeckRemaining' = numberDeckRemaining - d
        /\ actionCards' = [actionCards EXCEPT ![playerIdx] = Max(0, @ - 1)]

handleDrawCard(playerIdx, amount, targetIdx, hasCounter, oppCard) ==
    /\ IF hasCounter = "Y" \/ hasCounter = "YES"
       THEN LET oppAmount == drawCardAmount(oppCard)
                who == counterLosers(playerIdx, targetIdx, amount, oppAmount)
                r == IF who # {}
                     THEN drawLoop(0, loserDraw(amount, oppAmount), who, numberCards, numberDeckRemaining)
                     ELSE LET d1 == drawFromNumberDeck(1, numberDeckRemaining)
                              d2 == drawFromNumberDeck(1, numberDeckRemaining - d1)
                          IN  [nc |-> [numberCards EXCEPT ![playerIdx] = @ + d1,
                                                          ![targetIdx] = @ + d2],
                               deck |-> numberDeckRemaining - d1 - d2]
            IN  /\ numberCards' = r.nc
                /\ numberDeckRemaining' = r.deck
                /\ actionCards' = [actionCards EXCEPT ![playerIdx] = Max(0, @ - 1),
                                                      ![targetIdx] = Max(0, @ - 1)]
       ELSE takesTheHit(playerIdx, amount, targetIdx)
    /\ UNCHANGED <<consecutiveWins, isBlocked, actionDeckRemaining, gameOver, winner>>

\* mutant: the actor sheds only when the question was answered
handleTruthCardShedsIfAnswered(playerIdx, targetIdx, response, choice) ==
    /\ LET noAnswer == response = "N" \/ response = "NO"
           actDrawn == IF noAnswer /\ choice = 1
                       THEN drawFromActionDeck(2, actionDeckRemaining) ELSE 0
           numDrawn == IF noAnswer
                       THEN drawFromNumberDeck(IF choice = 1 THEN 2 ELSE 5,
                                               numberDeckRemaining)
                       ELSE 0
           ac1 == [actionCards EXCEPT ![playerIdx] = @ + actDrawn]
           nc1 == [numberCards EXCEPT ![targetIdx] = @ + numDrawn]
       IN  /\ actionDeckRemaining' = actionDeckRemaining - actDrawn
           /\ numberDeckRemaining' = numberDeckRemaining - numDrawn
           /\ actionCards' = IF noAnswer THEN ac1
                             ELSE [ac1 EXCEPT ![playerIdx] = Max(0, @ - 1)]
           /\ numberCards' = IF noAnswer THEN nc1
                             ELSE [nc1 EXCEPT ![playerIdx] = Max(0, @ - 1)]
    /\ UNCHANGED <<consecutiveWins, isBlocked, gameOver, winner>>

handleTruthCard(playerIdx, targetIdx, response, choice) ==
    /\ LET noAnswer == response = "N" \/ response = "NO"
           actDrawn == IF noAnswer /\ choice = 1
                       THEN drawFromActionDeck(2, actionDeckRemaining) ELSE 0
           numDrawn == IF noAnswer
                       THEN drawFromNumberDeck(IF choice = 1 THEN 2 ELSE 5,
                                               numberDeckRemaining)
                       ELSE 0
           ac1 == [actionCards EXCEPT ![playerIdx] = @ + actDrawn]
           nc1 == [numberCards EXCEPT ![targetIdx] = @ + numDrawn]
       IN  /\ actionDeckRemaining' = actionDeckRemaining - actDrawn
           /\ numberDeckRemaining' = numberDeckRemaining - numDrawn
           /\ actionCards' = [ac1 EXCEPT ![playerIdx] = Max(0, @ - 1)]
           /\ numberCards' = [nc1 EXCEPT ![playerIdx] = Max(0, @ - 1)]
    /\ UNCHANGED <<consecutiveWins, isBlocked, gameOver, winner>>

\* mutant: the played card is shed before the answer is looked at
handleDareCardShedsFirst(playerIdx, targetIdx, response) ==
    /\ IF response = "N" \/ response = "NO"
       THEN /\ gameOver' = TRUE
            /\ winner' = name[playerIdx]
            /\ actionCards' = [actionCards EXCEPT ![playerIdx] = Max(0, @ - 1)]
            /\ UNCHANGED numberCards
       ELSE /\ actionCards' = [actionCards EXCEPT ![playerIdx] = Max(0, @ - 1)]
            /\ numberCards' = [numberCards EXCEPT ![playerIdx] = Max(0, @ - 1)]
            /\ UNCHANGED <<gameOver, winner>>
    /\ UNCHANGED <<consecutiveWins, isBlocked, numberDeckRemaining, actionDeckRemaining>>

handleDareCard(playerIdx, targetIdx, response) ==
    /\ IF response = "N" \/ response = "NO"
       THEN /\ gameOver' = TRUE
            /\ winner' = name[playerIdx]
            /\ UNCHANGED <<numberCards, actionCards>>
       ELSE /\ actionCards' = [actionCards EXCEPT ![playerIdx] = Max(0, @ - 1)]
            /\ numberCards' = [numberCards EXCEPT ![playerIdx] = Max(0, @ - 1)]
            /\ UNCHANGED <<gameOver, winner>>
    /\ UNCHANGED <<consecutiveWins, isBlocked, numberDeckRemaining, actionDeckRemaining>>

\* menu choice 2: the player and the card are asked for here, the target and
\* the other answers by the handler the card dispatches to
HandleActionCard(playerIdx, actionStr) ==
    /\ pc = "menu"
    /\ LET type == parseActionType(actionStr)
       IN  CASE type \in {"BLOCK", "SKIP"} ->
                  \E targetIdx \in getValidatedPlayerIndex(playerIdx), counter \in YesNo :
                      handleBlockCard(playerIdx, targetIdx, counter)
             [] type = "REVERSE" ->
                  \E targetIdx \in getValidatedPlayerIndex(playerIdx) :
                      handleReverseCard(playerIdx, targetIdx)
             [] type \in {"COLOR_CHANGE", "WILD"} ->
                  handleColorChangeCard(playerIdx)
             [] type = "DRAW_TWO" ->
                  \E targetIdx \in getValidatedPlayerIndex(playerIdx),
                     hasCounter \in YesNo, oppCard \in DrawCards :
                      handleDrawCard(playerIdx, 2, targetIdx, hasCounter, oppCard)
             [] type = "DRAW_FOUR" ->
                  \E targetIdx \in getValidatedPlayerIndex(playerIdx),
                     hasCounter \in YesNo, oppCard \in DrawCards :
                      handleDrawCard(playerIdx, 4, targetIdx, hasCounter, oppCard)
             [] type = "TRUTH" ->
                  \E targetIdx \in getValidatedPlayerIndex(playerIdx),
                     response \in YesNo, choice \in 1 .. 2 :
                      handleTruthCard(playerIdx, targetIdx, response, choice)
             [] type = "DARE" ->
                  \E targetIdx \in getValidatedPlayerIndex(playerIdx), response \in YesNo :
                      handleDareCard(playerIdx, targetIdx, response)
             [] OTHER ->
                  UNCHANGED <<numberCards, actionCards, consecutiveWins, isBlocked,
                              numberDeckRemaining, actionDeckRemaining, gameOver, winner>>
    /\ pc' = afterHandler(gameOver')
    /\ UNCHANGED <<name, idx, playedCards, winners>>

(***************************************************************************)
(* manualAdjustment (menu choice 4) and "End Game" (menu choice 5)          *)
(***************************************************************************)

\* The "New Count" is read from 0..100 (0..50 for action cards); the model
\* takes it from 0..MaxNumberTotal (0..MaxActionTotal) and keeps the cards in
\* play within the totals.
ManualAdjustment(pIdx, choice, newCount) ==
    /\ pc = "menu"
    /\ IF choice = 1
       THEN /\ newCount \in 0 .. MaxNumberTotal
            /\ numberCards' = [numberCards EXCEPT ![pIdx] = newCount]
            /\ sumFrom(0, numberCards') + numberDeckRemaining <= MaxNumberTotal
            /\ UNCHANGED <<actionCards, consecutiveWins>>
       ELSE IF choice = 2
       THEN /\ newCount \in 0 .. MaxActionTotal
            /\ actionCards' = [actionCards EXCEPT ![pIdx] = newCount]
            /\ sumFrom(0, actionCards') + actionDeckRemaining <= MaxActionTotal
            /\ UNCHANGED <<numberCards, consecutiveWins>>
       ELSE /\ newCount = 0
            /\ consecutiveWins' = [consecutiveWins EXCEPT ![pIdx] = 0]
            /\ UNCHANGED <<numberCards, actionCards>>
    /\ UNCHANGED <<name, isBlocked, numberDeckRemaining, actionDeckRemaining,
                   gameOver, winner, pc, idx, playedCards, winners>>

EndGame ==
    /\ pc = "menu"
    /\ gameOver' = TRUE
    /\ pc' = afterHandler(gameOver')
    /\ UNCHANGED <<name, numberCards, actionCards, consecutiveWins, isBlocked,
                   numberDeckRemaining, actionDeckRemaining, winner, idx,
                   playedCards, winners>>

AdjustCounts == 0 .. Max(MaxNumberTotal, MaxActionTotal)

Next ==
    \/ \E declared \in [Players -> CardValues] :
          CollectPlays(declared) /\ UNCHANGED game
    \/ \E targetIdx \in getValidatedPlayerIndex(idx) :
          EffectsStep(targetIdx) /\ UNCHANGED game
    \/ ResolveWinner /\ UNCHANGED game
    \/ \E choice \in 1 .. 2 : BonusStep(choice) /\ UNCHANGED game
    \/ \E challenge \in YesNo, challengerIdx \in getValidatedPlayerIndex(idx),
          cardType \in DrawCards :
          WinStep(challenge, challengerIdx, cardType) /\ UNCHANGED game
    \/ \E playerIdx \in getValidatedPlayerIndex(-1), actionStr \in ActionStrings :
          HandleActionCard(playerIdx, actionStr) /\ UNCHANGED game
    \/ \E pIdx \in getValidatedPlayerIndex(-1), choice \in 1 .. 3, newCount \in AdjustCounts :
          ManualAdjustment(pIdx, choice, newCount) /\ UNCHANGED game
    \/ EndGame /\ UNCHANGED game

Spec == Init /\ [][Next]_vars

\* the same program with one name typed in for all players
SpecSameName == InitSameName /\ [][Next]_vars

\* handleNumberRound is running: the menu is not offered before it returns
inRound == pc \in {"effects", "resolve", "bonus", "win"}

\* one step of the running round; every prompt of it waits on std::cin
RoundStep == inRound /\ Next

\* the program when every prompt of a running round is answered in the end
\* with an input its getValidated... loop accepts
SpecAnswered == Init /\ [][Next]_vars /\ WF_vars(RoundStep)

(***************************************************************************)
(* The two-player arbiter (src/unnamed/part_001): the win evaluation.  It   *)
(* keeps the same ledger, with player A at index 0 and player B at index 1. *)
(* checkWinCondition is entered with the ledger its caller leaves, which    *)
(* the initial states enumerate; it looks at player A and then at player B. *)
(***************************************************************************)
drawFromNumberDeckV2(amount, remaining) ==
    IF remaining <= 0 THEN 0 ELSE Min(amount, remaining)

handleDrawChallengeV2(winningPlayer, challengingPlayer, challenge, isOnlyCard, cardType) ==
    IF challenge = "Y" \/ challenge = "YES"
    THEN IF isOnlyCard = "Y" \/ isOnlyCard = "YES"
         THEN LET drawn == drawFromNumberDeckV2(1, numberDeckRemaining)
              IN  /\ numberCards' = [numberCards EXCEPT ![challengingPlayer] = @ + drawn]
                  /\ numberDeckRemaining' = numberDeckRemaining - drawn
                  /\ UNCHANGED <<actionCards, gameOver, winner>>
         ELSE LET drawAmount == IF cardType = "+2" THEN 2 ELSE 4
                  drawn == drawFromNumberDeckV2(drawAmount, numberDeckRemaining)
              IN  /\ numberCards' = [numberCards EXCEPT ![winningPlayer] = @ + drawn]
                  /\ numberDeckRemaining' = numberDeckRemaining - drawn
                  /\ actionCards' = [actionCards EXCEPT ![challengingPlayer] = Max(0, @ - 1)]
                  /\ UNCHANGED <<gameOver, winner>>
    ELSE /\ gameOver' = TRUE
         /\ winner' = name[winningPlayer]
         /\ UNCHANGED <<numberCards, actionCards, numberDeckRemaining>>

\* "if (playerACards == 0) handleDrawChallenge('A', 'B')"
CheckWinConditionA(challenge, isOnlyCard, cardType) ==
    /\ pc = "menu"
    /\ IF numberCards[0] = 0
       THEN handleDrawChallengeV2(0, 1, challenge, isOnlyCard, cardType)
       ELSE UNCHANGED <<numberCards, actionCards, numberDeckRemaining, gameOver, winner>>
    /\ pc' = "winB"
    /\ UNCHANGED <<name, consecutiveWins, isBlocked, actionDeckRemaining, idx,
                   playedCards, winners>>

\* "if (playerBCards == 0) handleDrawChallenge('B', 'A')", then back to run()
\* and its "while (!gameOver)"
CheckWinConditionB(challenge, isOnlyCard, cardType) ==
    /\ pc = "winB"
    /\ IF numberCards[1] = 0
       THEN handleDrawChallengeV2(1, 0, challenge, isOnlyCard, cardType)
       ELSE UNCHANGED <<numberCards, actionCards, numberDeckRemaining, gameOver, winner>>
    /\ pc' = IF gameOver' THEN "done" ELSE "menu"
    /\ UNCHANGED <<name, consecutiveWins, isBlocked, actionDeckRemaining, idx,
                   playedCards, winners>>

NextV2 ==
    \/ \E challenge \in YesNo, isOnlyCard \in YesNo, cardType \in DrawCards :
          CheckWinConditionA(challenge, isOnlyCard, cardType) /\ UNCHANGED game
    \/ \E challenge \in YesNo, isOnlyCard \in YesNo, cardType \in DrawCards :
          CheckWinConditionB(challenge, isOnlyCard, cardType) /\ UNCHANGED game

SpecV2 == Init /\ [][NextV2]_vars

(***************************************************************************)
(* The web application (src/app/js): Player, AIPlayer, Game, UI            *)
(*                                                                         *)
(* Every operator below is a method of the page, from a Game record to the *)
(* set of Game records it can leave: Deck.draw pops a shuffled array and   *)
(* handleSteal takes a random card, so one call has several outcomes.      *)
(* A method that schedules a callback appends it to game.timeouts; the     *)
(* callback runs in a later step.                                          *)
(***************************************************************************)
Sides == {"player", "ai"}

RECURSIVE bagSize(_, _)
bagSize(hand, ids) ==
    IF ids = {} THEN 0
    ELSE LET c == CHOOSE x \in ids : TRUE
         IN  hand[c] + bagSize(hand, ids \ {c})

\* Player.numberCount, Player.actionCount
numberCount(p) == bagSize(p.numberHand, DOMAIN p.numberHand)
actionCount(p) == bagSize(p.actionHand, DOMAIN p.actionHand)

held(hand) == {c \in DOMAIN hand : hand[c] > 0}

\* Player.addCard: by Card.type into the number hand or the action hand
addCard(g, who, c) ==
    IF c \in NumberIds
    THEN [g EXCEPT ![who].numberHand[c] = @ + 1]
    ELSE [g EXCEPT ![who].actionHand[c] = @ + 1]

\* Player.removeCard: the first card with the id, number hand first; a hand
\* without the id is left as it is
removeCard(g, who, cardId) ==
    IF cardId \in NumberIds /\ g[who].numberHand[cardId] > 0
    THEN [g EXCEPT ![who].numberHand[cardId] = @ - 1]
    ELSE IF cardId \in ActionIds /\ g[who].actionHand[cardId] > 0
    THEN [g EXCEPT ![who].actionHand[cardId] = @ - 1]
    ELSE g

\* AIPlayer.chooseNumberCard: null with an empty hand; a 7 if the opponent
\* holds fewer than 5 cards; else a card of the highest value.  The card
\* stays in the hand.
chooseNumberCard(p, opponentNumCount) ==
    LET cards == held(p.numberHand)
        sevens == {c \in cards : cardValue(c) = 7}
    IN  IF cards = {} THEN {null}
        ELSE IF sevens # {} /\ opponentNumCount < 5 THEN sevens
        ELSE {c \in cards : \A d \in cards : cardValue(d) <= cardValue(c)}

\* AIPlayer.chooseActionCard: null with no action card; with the opponent at
\* 4 number cards or fewer a +4, else a +2, else a Block; failing that any
\* card if more than 3 are held; else null
chooseActionCard(p, opponentNumCount) ==
    LET cards == held(p.actionHand)
        ofValue(v) == {c \in cards : cardValue(c) = v}
        critical == opponentNumCount <= 4
        best == IF ~critical THEN {}
                ELSE IF ofValue("wild_draw4") # {} THEN ofValue("wild_draw4")
                ELSE IF ofValue("draw2") # {} THEN ofValue("draw2")
                ELSE ofValue("block")
    IN  IF cards = {} THEN {null}
        ELSE IF best # {} THEN best
        ELSE IF actionCount(p) > 3 THEN cards
        ELSE {null}

\* window.setTimeout(callback, delay)
setTimeout(g, kind, pCard, aiCard, delay) ==
    [g EXCEPT !.timeouts =
        Append(@, [kind |-> kind, pCard |-> pCard, aiCard |-> aiCard, delay |-> delay])]

\* UI.updateHand renders the hands as they are and sets the Pass button by
\* the state; UI.updateGameState ends with it
updateHand(g) == [g EXCEPT !.playActionBtnDisabled = (g.state # "PLAY_ACTION")]
updateGameState(g) == updateHand(g)

\* UI.enableNumberInput
enableNumberInput(g, enabled) ==
    IF enabled
    THEN [g EXCEPT !.playerHandDisabled = FALSE, !.state = "PLAY_NUMBER"]
    ELSE [g EXCEPT !.playerHandDisabled = TRUE]

\* UI.enableActionInput
enableActionInput(g, enabled) ==
    IF enabled
    THEN [g EXCEPT !.playerActionHandDisabled = FALSE, !.state = "PLAY_ACTION",
                   !.playActionBtnDisabled = FALSE]
    ELSE [g EXCEPT !.playerActionHandDisabled = TRUE, !.playActionBtnDisabled = TRUE]

\* Game.drawCards: up to count cards while the deck has one, then a refresh
RECURSIVE drawCardsLoop(_, _, _, _)
drawCardsLoop(g, who, count, type) ==
    LET deck == IF type = "number" THEN g.numberDeck ELSE g.actionDeck
    IN  IF count = 0 \/ deck = {} THEN {g}
        ELSE UNION {drawCardsLoop(
                        addCard(IF type = "number"
                                THEN [g EXCEPT !.numberDeck = @ \ {c}]
                                ELSE [g EXCEPT !.actionDeck = @ \ {c}], who, c),
                        who, count - 1, type) : c \in deck}

drawCards(g, who, count, type) ==
    {updateGameState(h) : h \in drawCardsLoop(g, who, count, type)}

\* Game.handleSteal: a random card of the victim goes to the thief
handleSteal(g, thief, victim) ==
    IF numberCount(g[victim]) > 0
    THEN {updateGameState(addCard([g EXCEPT ![victim].numberHand[c] = @ - 1], thief, c)) :
             c \in held(g[victim].numberHand)}
    ELSE {g}

\* Game.handlePenalty7
handlePenalty7(g, victim) ==
    UNION {drawCards(h, victim, 1, "action") : h \in drawCards(g, victim, 2, "number")}

\* Game.checkConsecutiveWins: the bonus is always one action card
checkConsecutiveWins(g) ==
    LET forPlayer == IF g.player.consecutiveWins >= 2
                     THEN {[h EXCEPT !.player.consecutiveWins = 0] :
                              h \in drawCards(g, "player", 1, "action")}
                     ELSE {g}
    IN  UNION {IF h.ai.consecutiveWins >= 2
               THEN {[k EXCEPT !.ai.consecutiveWins = 0] :
                        k \in drawCards(h, "ai", 1, "action")}
               ELSE {h} : h \in forPlayer}

\* Game.endGame with UI.showGameOver
endGame(g, who) ==
    [g EXCEPT !.state = "GAME_OVER", !.modal = "gameOver", !.pickerCard = null,
              !.shownWinner = who]

\* Game.checkWinCondition
checkWinCondition(g) ==
    IF numberCount(g.player) = 0 THEN endGame(g, "player")
    ELSE IF numberCount(g.ai) = 0 THEN endGame(g, "ai")
    ELSE g

\* Game.applyRoundResult
applyRoundResult(g, roundWinner, pCard, aiCard) ==
    LET applied ==
            IF roundWinner = "player"
            THEN {[h EXCEPT !.player.consecutiveWins = @ + 1,
                            !.ai.consecutiveWins = 0,
                            !.currentPhase = "PLAYER_ACTION"] :
                     h \in IF aiCard # null
                           THEN drawCards(addCard(g, "ai", aiCard), "ai", 1, "number")
                           ELSE {g}}
            ELSE IF roundWinner = "ai"
            THEN {[h EXCEPT !.ai.consecutiveWins = @ + 1,
                            !.player.consecutiveWins = 0,
                            !.currentPhase = "AI_ACTION"] :
                     h \in IF pCard # null
                           THEN drawCards(addCard(g, "player", pCard), "player", 1, "number")
                           ELSE {g}}
            ELSE IF roundWinner = "tie"
            THEN {[h EXCEPT !.player.consecutiveWins = 0,
                            !.ai.consecutiveWins = 0,
                            !.currentPhase = "NONE"] :
                     h \in UNION {drawCards(k, "ai", 1, "number") :
                                     k \in drawCards(g, "player", 1, "number")}}
            ELSE {g}
    IN  {IF h.state # "GAME_OVER"
         THEN setTimeout(h, "startActionPhase", null, null, 1500)
         ELSE h :
            h \in {checkWinCondition(k) :
                      k \in UNION {checkConsecutiveWins(a) : a \in applied}}}

\* the winner the callback of Game.resolveRound finds
roundWinnerOf(pCard, aiCard) ==
    IF pCard # null /\ aiCard = null THEN "player"
    ELSE IF pCard = null /\ aiCard # null THEN "ai"
    ELSE IF pCard # null /\ aiCard # null
    THEN IF cardValue(pCard) > cardValue(aiCard) THEN "player"
         ELSE IF cardValue(aiCard) > cardValue(pCard) THEN "ai"
         ELSE "tie"
    ELSE "none"

\* the callback of Game.resolveRound, with the two cards it captured
resolveRoundCallback(g, pCard, aiCard) ==
    LET played(c, v) == c # null /\ cardValue(c) = v
        s1 == IF played(pCard, 0) THEN handleSteal(g, "player", "ai") ELSE {g}
        s2 == UNION {IF played(aiCard, 0)
                     THEN handleSteal(h, "ai", "player") ELSE {h} : h \in s1}
        s3 == UNION {IF played(pCard, 7)
                     THEN handlePenalty7(h, "ai") ELSE {h} : h \in s2}
        s4 == UNION {IF played(aiCard, 7)
                     THEN handlePenalty7(h, "player") ELSE {h} : h \in s3}
    IN  UNION {applyRoundResult(h, roundWinnerOf(pCard, aiCard), pCard, aiCard) : h \in s4}

\* Game.resolveRound: shows the two cards and schedules the callback
resolveRound(g) ==
    setTimeout(g, "resolveRound", g.tempPlayedCards.player, g.tempPlayedCards.ai, 1500)

\* Game.startRound and Game.endRound call each other
RECURSIVE startRound(_)
RECURSIVE endRound(_)
startRound(g) ==
    IF g.player.isBlocked /\ g.ai.isBlocked
    THEN endRound([g EXCEPT !.player.isBlocked = FALSE, !.ai.isBlocked = FALSE])
    ELSE LET g1 == enableNumberInput(g, TRUE)
             aiCards == IF ~g1.ai.isBlocked
                        THEN chooseNumberCard(g1.ai, numberCount(g1.player))
                        ELSE {null}
         IN  {LET g2 == [g1 EXCEPT !.tempPlayedCards.ai = c]
              IN  IF g2.player.isBlocked
                  THEN resolveRound(enableNumberInput(g2, FALSE))
                  ELSE g2 : c \in aiCards}

endRound(g) ==
    IF g.roundCount >= MaxRounds THEN {}
    ELSE startRound([g EXCEPT !.player.isBlocked = FALSE,
                              !.ai.isBlocked = FALSE,
                              !.roundCount = @ + 1])

\* Game.dealInitialCards
dealInitialCards(g) ==
    LET dealt(deck) == {S \in SUBSET deck : Cardinality(S) = WebDeal}
    IN  UNION {{[g EXCEPT !.numberDeck = (@ \ P) \ A,
                          !.player.numberHand = [c \in NumberIds |-> IF c \in P THEN 1 ELSE 0],
                          !.ai.numberHand = [c \in NumberIds |-> IF c \in A THEN 1 ELSE 0]] :
                   A \in dealt(g.numberDeck \ P)} : P \in dealt(g.numberDeck)}

\* Game.start
start(g) ==
    UNION {startRound(updateGameState(h)) :
              h \in dealInitialCards([g EXCEPT !.state = "PLAY_NUMBER", !.roundCount = 1])}

\* Game.playNumberCard
playNumberCard(g, cardId) ==
    resolveRound(updateHand([removeCard(g, "player", cardId)
                                EXCEPT !.tempPlayedCards.player = cardId]))

\* Game.resolveAction.  Deck.reset builds no Truth and no Dare card; their
\* case sheds the last card of the user's sorted number hand.
resolveAction(g, user, target, card) ==
    LET value == cardValue(card)
        done == IF value = "block" THEN {[g EXCEPT ![target].isBlocked = TRUE]}
                ELSE IF value = "draw2" THEN drawCards(g, target, 2, "number")
                ELSE IF value = "wild_draw4" THEN drawCards(g, target, 4, "number")
                ELSE IF value = "reverse"
                THEN {[g EXCEPT ![user].numberHand = g[target].numberHand,
                                ![user].actionHand = g[target].actionHand,
                                ![target].numberHand = g[user].numberHand,
                                ![target].actionHand = g[user].actionHand]}
                ELSE IF value \in {"truth", "dare"} /\ numberCount(g[user]) > 0
                THEN {[g EXCEPT ![user].numberHand[c] = @ - 1] :
                         c \in held(g[user].numberHand)}
                ELSE {g}
    IN  {IF h.state # "GAME_OVER"
         THEN setTimeout(h, "endRound", null, null, 1500)
         ELSE h : h \in done}

\* Game.playActionCard: a wild card waits for the colour picker
playActionCard(g, cardId) ==
    LET g1 == removeCard(g, "player", cardId)
    IN  IF cardValue(cardId) \in {"wild", "wild_draw4"}
        THEN {[g1 EXCEPT !.modal = "color", !.pickerCard = cardId]}
        ELSE {updateGameState(h) : h \in resolveAction(g1, "player", "ai", cardId)}

\* the callback playActionCard hands to UI.showColorPicker
colorPicked(g) ==
    {updateGameState(h) :
        h \in resolveAction([g EXCEPT !.modal = "hidden", !.pickerCard = null],
                            "player", "ai", g.pickerCard)}

\* Game.startActionPhase
startActionPhase(g) ==
    IF g.currentPhase = "NONE" THEN endRound(g)
    ELSE IF g.currentPhase = "PLAYER_ACTION" THEN {enableActionInput(g, TRUE)}
    ELSE LET g1 == enableActionInput(g, FALSE)
         IN  {IF aiAction # null
              THEN setTimeout(g1, "aiPlays", null, aiAction, 1000)
              ELSE setTimeout(g1, "aiPasses", null, null, 1000) :
                 aiAction \in chooseActionCard(g1.ai, numberCount(g1.player))}

\* the callback startActionPhase schedules for the card the AI chose
aiPlays(g, aiAction) ==
    {updateGameState(removeCard(h, "ai", aiAction)) :
        h \in resolveAction(g, "ai", "player", aiAction)}

\* Game.passActionPhase
passActionPhase(g) == endRound(g)

(***************************************************************************)
(* The steps of the page: a click the browser delivers, or a callback whose *)
(* delay has run out.  A click reaches a handler only on the screen shown,  *)
(* with no modal over it and on an element not marked disabled.             *)
(***************************************************************************)
arbiterVars == <<name, numberCards, actionCards, consecutiveWins, isBlocked,
                 numberDeckRemaining, actionDeckRemaining, gameOver, winner,
                 pc, idx, playedCards, winners>>

onBoard == game.screen = "game-board" /\ game.modal = "hidden"

\* a callback scheduled earlier with the same or a shorter delay runs first
due(k) ==
    /\ k \in 1 .. Len(game.timeouts)
    /\ \A j \in 1 .. k - 1 : game.timeouts[j].delay > game.timeouts[k].delay

without(k) ==
    [game EXCEPT !.timeouts = SubSeq(@, 1, k - 1) \o SubSeq(@, k + 1, Len(@))]

\* one handler has run: the page is in one of the records it can leave
becomes(S) == \E h \in S : Len(h.timeouts) <= MaxTimeouts /\ game' = h

\* the start button of the main menu
ClickStart ==
    /\ game.screen = "main-menu"
    /\ becomes(start([game EXCEPT !.screen = "game-board"]))
    /\ UNCHANGED arbiterVars

\* the click handler UI.updateHand puts on a card of the number hand
ClickNumberCard(cardId) ==
    /\ onBoard
    /\ ~game.playerHandDisabled
    /\ game.player.numberHand[cardId] > 0
    /\ game.state = "PLAY_NUMBER"
    /\ becomes({playNumberCard(game, cardId)})
    /\ UNCHANGED arbiterVars

\* the click handler UI.updateHand puts on a card of the action hand
ClickActionCard(cardId) ==
    /\ onBoard
    /\ ~game.playerActionHandDisabled
    /\ game.player.actionHand[cardId] > 0
    /\ game.state = "PLAY_ACTION"
    /\ becomes(playActionCard(game, cardId))
    /\ UNCHANGED arbiterVars

\* the Pass button
ClickPassAction ==
    /\ onBoard
    /\ ~game.playActionBtnDisabled
    /\ game.state = "PLAY_ACTION"
    /\ becomes(passActionPhase(game))
    /\ UNCHANGED arbiterVars

\* a button of the colour picker
ClickColor ==
    /\ game.modal = "color"
    /\ becomes(colorPicked(game))
    /\ UNCHANGED arbiterVars

\* "Play Again" of the game-over modal reloads the page
ClickPlayAgain ==
    /\ game.modal = "gameOver"
    /\ game' = newGame
    /\ UNCHANGED arbiterVars

ResolveRoundTimeout ==
    /\ \E k \in 1 .. Len(game.timeouts) :
          /\ due(k)
          /\ game.timeouts[k].kind = "resolveRound"
          /\ becomes(resolveRoundCallback(without(k), game.timeouts[k].pCard,
                                           game.timeouts[k].aiCard))
    /\ UNCHANGED arbiterVars

StartActionPhaseTimeout ==
    /\ \E k \in 1 .. Len(game.timeouts) :
          /\ due(k)
          /\ game.timeouts[k].kind = "startActionPhase"
          /\ becomes(startActionPhase(without(k)))
    /\ UNCHANGED arbiterVars

AiPlaysTimeout ==
    /\ \E k \in 1 .. Len(game.timeouts) :
          /\ due(k)
          /\ game.timeouts[k].kind = "aiPlays"
          /\ becomes(aiPlays(without(k), game.timeouts[k].aiCard))
    /\ UNCHANGED arbiterVars

AiPassesTimeout ==
    /\ \E k \in 1 .. Len(game.timeouts) :
          /\ due(k)
          /\ game.timeouts[k].kind = "aiPasses"
          /\ becomes(endRound(without(k)))
    /\ UNCHANGED arbiterVars

EndRoundTimeout ==
    /\ \E k \in 1 .. Len(game.timeouts) :
          /\ due(k)
          /\ game.timeouts[k].kind = "endRound"
          /\ becomes(endRound(without(k)))
    /\ UNCHANGED arbiterVars

\* the page is loaded; the arbiter is another program and does not run
WebInit ==
    /\ InitWith([i \in Players |-> PlayerNames[i + 1]])
    /\ numberCards = [i \in Players |-> 0]
    /\ actionCards = [i \in Players |-> 0]
    /\ numberDeckRemaining = 0
    /\ actionDeckRemaining = 0

WebNext ==
    \/ ClickStart
    \/ \E cardId \in NumberIds : ClickNumberCard(cardId)
    \/ \E cardId \in ActionIds : ClickActionCard(cardId)
    \/ ClickPassAction
    \/ ClickColor
    \/ ClickPlayAgain
    \/ ResolveRoundTimeout
    \/ StartActionPhaseTimeout
    \/ AiPlaysTimeout
    \/ AiPassesTimeout
    \/ EndRoundTimeout

WebSpec == WebInit /\ [][WebNext]_vars

\* A game in progress, in its first round: the AI has won the number round
\* with the card aiCard over the player's pCard, both decks are drawn empty,
\* the AI holds every action card, and the callback applyRoundResult scheduled
\* for the action phase has not run yet.  P and A are the two number hands.
inPlay(P, A, pCard, aiCard) ==
    [newGame EXCEPT
        !.state = "PLAY_NUMBER",
        !.currentPhase = "AI_ACTION",
        !.roundCount = 1,
        !.numberDeck = {},
        !.actionDeck = {},
        !.player.numberHand = [c \in NumberIds |-> IF c \in P THEN 1 ELSE 0],
        !.ai.numberHand = [c \in NumberIds |-> IF c \in A THEN 1 ELSE 0],
        !.ai.actionHand = [c \in ActionIds |-> 1],
        !.tempPlayedCards = [player |-> pCard, ai |-> aiCard],
        !.screen = "game-board",
        !.playActionBtnDisabled = TRUE,
        !.timeouts = <<[kind |-> "startActionPhase", pCard |-> null,
                        aiCard |-> null, delay |-> 1500]>>]

\* the page runs such a game; the arbiter is another program and does not run
WebInitInPlay ==
    /\ name = [i \in Players |-> PlayerNames[i + 1]]
    /\ numberCards = [i \in Players |-> 0]
    /\ actionCards = [i \in Players |-> 0]
    /\ consecutiveWins = [i \in Players |-> 0]
    /\ isBlocked = [i \in Players |-> FALSE]
    /\ numberDeckRemaining = 0
    /\ actionDeckRemaining = 0
    /\ gameOver = FALSE
    /\ winner = NoWinner
    /\ pc = "menu"
    /\ idx = 0
    /\ playedCards = noCards
    /\ winners = << >>
    /\ \E P \in SUBSET NumberIds : \E pCard \in P : \E aiCard \in NumberIds \ P :
          /\ cardValue(aiCard) > cardValue(pCard)
          /\ game = inPlay(P, NumberIds \ P, pCard, aiCard)

WebSpecInPlay == WebInitInPlay /\ [][WebNext]_vars

(***************************************************************************)
(* Properties                                                               *)
(***************************************************************************)
tiedPlayers == {winners[k] : k \in 1 .. Len(winners)}
participants == {i \in Players : playedCards[i] # NoCard}
\* the rest of a step that runs one handler from the menu and returns to it
menuAgain == pc' = "menu" /\ UNCHANGED <<name, idx, playedCards, winners>>
ManualStep ==
    \E pIdx \in Players, choice \in 1 .. 3, newCount \in AdjustCounts :
        ManualAdjustment(pIdx, choice, newCount)

\* C1: in every reachable state every player's numberCards and actionCards
\* and both deck pools are >= 0.
C1_NonNegative ==
    /\ \A i \in Players : numberCards[i] >= 0 /\ actionCards[i] >= 0
    /\ numberDeckRemaining >= 0
    /\ actionDeckRemaining >= 0

\* the win evaluation after a round whose winner shed the last card, with
\* both pools empty and nothing left in that player's hand
C1_Witness ==
    /\ pc = "win"
    /\ numberDeckRemaining = 0
    /\ actionDeckRemaining = 0
    /\ \E i \in Players :
          numberCards[i] = 0 /\ actionCards[i] = 0 /\ consecutiveWins[i] = 1

\* C2: Reverse played by actor a on target t leaves a with the target's two
\* counts and t with the actor's numberCards and the actor's actionCards
\* less the played card (floored at 0).
C2_ReverseExchangesHands ==
    [][\A a \in Players : \A t \in getValidatedPlayerIndex(a) :
          (pc = "menu" /\ handleReverseCard(a, t) /\ menuAgain)
          => /\ numberCards'[a] = numberCards[t]
             /\ actionCards'[a] = actionCards[t]
             /\ numberCards'[t] = numberCards[a]
             /\ actionCards'[t] = Max(0, actionCards[a] - 1)]_vars

\* C3: whenever a step of a number round or of an action card leaves a
\* player's numberCards at exactly 0 with the game still on, the round or
\* card does not return to the menu before the win evaluation: the next
\* position is inside handleNumberRound, ahead of or in checkWinCondition.
C3_ZeroIsEvaluatedBeforeNextIntent ==
    [][\A p \in Players :
          (numberCards[p] # 0 /\ numberCards'[p] = 0 /\ ~gameOver' /\ ~ManualStep)
          => pc' \in {"effects", "resolve", "bonus", "win"}]_vars

C6_SingleWinner ==
    [][(pc = "resolve" /\ Len(winners) = 1)
          => LET w == winners[1]
                 losers == participants \ {w}
                 before(i) == Cardinality({j \in losers : j < i})
             IN  /\ numberCards'[w] = Max(0, numberCards[w] - 1)
                 /\ consecutiveWins'[w] = consecutiveWins[w] + 1
                 /\ \A i \in losers :
                       /\ consecutiveWins'[i] = 0
                       /\ numberCards'[i] = numberCards[i]
                             + Min(1, Max(0, numberDeckRemaining - before(i)))
                 /\ numberDeckRemaining' =
                       numberDeckRemaining - Min(Cardinality(losers), numberDeckRemaining)]_vars

\* a round with one winner and one loser about to be resolved
C6_Witness ==
    /\ pc = "resolve"
    /\ Len(winners) = 1
    /\ participants \ tiedPlayers # {}
    /\ numberCards[winners[1]] >= 1
    /\ numberDeckRemaining >= 1

\* C7: drawNumber(n) and drawAction(n) hand out min(n, remaining) of their
\* own pool and lower it by exactly that (nothing when the pool is at 0); the
\* other pool is untouched.  Stated at the calls whose result shows in one
\* count: an uncountered +2/+4 (n = 2, 4), a refused Truth (n = 5, or 2 of
\* each pool), the bonus action card (n = 1) and the 7 (n = 2 and n = 1).
C7_DrawsAreClamped ==
    [][/\ \A p \in Players : \A t \in getValidatedPlayerIndex(p) :
            /\ \A amount \in {2, 4} :
                  (pc = "menu" /\ handleDrawCard(p, amount, t, "N", "+2") /\ menuAgain)
                  => /\ numberCards'[t] = numberCards[t] + Min(amount, numberDeckRemaining)
                     /\ numberDeckRemaining' =
                            numberDeckRemaining - Min(amount, numberDeckRemaining)
                     /\ actionDeckRemaining' = actionDeckRemaining
            /\ (pc = "menu" /\ handleTruthCard(p, t, "N", 2) /\ menuAgain)
                  => /\ numberCards'[t] = numberCards[t] + Min(5, numberDeckRemaining)
                     /\ numberDeckRemaining' = numberDeckRemaining - Min(5, numberDeckRemaining)
                     /\ actionDeckRemaining' = actionDeckRemaining
            /\ (pc = "menu" /\ handleTruthCard(p, t, "N", 1) /\ menuAgain)
                  => /\ numberCards'[t] = numberCards[t] + Min(2, numberDeckRemaining)
                     /\ numberDeckRemaining' = numberDeckRemaining - Min(2, numberDeckRemaining)
                     /\ actionCards'[p] =
                            Max(0, actionCards[p] + Min(2, actionDeckRemaining) - 1)
                     /\ actionDeckRemaining' = actionDeckRemaining - Min(2, actionDeckRemaining)
       /\ (BonusStep(1) /\ consecutiveWins[idx] >= 2)
            => /\ actionCards'[idx] = actionCards[idx] + Min(1, actionDeckRemaining)
               /\ actionDeckRemaining' = actionDeckRemaining - Min(1, actionDeckRemaining)
               /\ numberDeckRemaining' = numberDeckRemaining
       /\ \A t \in getValidatedPlayerIndex(idx) :
            (EffectsStep(t) /\ playedCards[idx] = 7)
            => /\ numberCards'[t] = numberCards[t] + Min(2, numberDeckRemaining)
               /\ numberDeckRemaining' = numberDeckRemaining - Min(2, numberDeckRemaining)
               /\ actionCards'[t] = actionCards[t] + Min(1, actionDeckRemaining)
               /\ actionDeckRemaining' = actionDeckRemaining - Min(1, actionDeckRemaining)]_vars

\* the first player's 7 has made the second draw, and both pools are empty
\* now: partial draws, or draws from an empty pool
C7_Witness ==
    /\ pc = "resolve"
    /\ playedCards[0] = 7
    /\ playedCards[1] = 3
    /\ numberDeckRemaining = 0
    /\ actionDeckRemaining = 0
    /\ numberCards[1] >= 1
    /\ actionCards[1] >= 1

\* C8: a player who is still at 0 number cards after a honored challenge is
\* put through the challenge phase again in the same evaluation: the
\* evaluation stays on that player.
C8_StillZeroIsChallengedAgain ==
    [][(pc = "win" /\ numberCards[idx] = 0 /\ ~gameOver' /\ numberCards'[idx] = 0)
          => (pc' = "win" /\ idx' = idx)]_vars

\* C9: a challenge with +N (N = 2 or 4) against the player at 0 gives that
\* player drawNumber(N) number cards, takes 1 action card (floored at 0) from
\* the challenger and does not end the game.
C9_ChallengeDrawsN ==
    [][\A c \in getValidatedPlayerIndex(idx) : \A cardType \in DrawCards :
       \A challenge \in {"Y", "YES"} :
          (numberCards[idx] = 0 /\ WinStep(challenge, c, cardType))
          => LET N == IF cardType = "+2" THEN 2 ELSE 4
             IN  /\ numberCards'[idx] = numberCards[idx] + Min(N, numberDeckRemaining)
                 /\ numberDeckRemaining' = numberDeckRemaining - Min(N, numberDeckRemaining)
                 /\ actionCards'[c] = Max(0, actionCards[c] - 1)
                 /\ ~gameOver'
                 /\ winner' = winner
                 /\ pc' # "done"]_vars

\* the win evaluation has reached a player at 0, the pool holds 4 cards and
\* the other player holds an action card
C9_Witness ==
    /\ pc = "win"
    /\ numberCards[idx] = 0
    /\ numberDeckRemaining >= 4
    /\ \E c \in getValidatedPlayerIndex(idx) : actionCards[c] >= 1

\* C10: the win evaluation ends the game only on a player who holds 0 number
\* cards and whose challenge phase drew no challenge (no count and no pool
\* changes), and names that player the winner; while the game is on it only
\* moves forward, so a player who was challenged is not evaluated again, and
\* not declared winner, in that evaluation.
C10_WinnerIsUncontestedAtZero ==
    [][pc = "win"
          => /\ gameOver'
                => /\ numberCards[idx] = 0
                   /\ numberCards'[idx] = 0
                   /\ winner' = name[idx]
                   /\ UNCHANGED <<numberCards, actionCards, numberDeckRemaining,
                                  actionDeckRemaining>>
             /\ (~gameOver' /\ pc' = "win") => idx' = idx + 1
             /\ winner' # winner => gameOver']_vars

\* the game has ended in the win evaluation of the second player, the first
\* having been passed with cards in hand
C10_Witness ==
    /\ pc = "done"
    /\ gameOver
    /\ winner = name[1]
    /\ numberCards[1] = 0
    /\ numberCards[0] > 0
    /\ consecutiveWins[1] = 1

\* C11: the win evaluation takes the players one by one in player order,
\* every player up to the first one confirmed uncontested; with that player
\* the game is over and nothing is evaluated, challenged or declared after it.
C11_EvaluatedInOrderUntilWinner ==
    [][/\ (pc # "win" /\ pc' = "win") => idx' = 0
       /\ (pc = "win" /\ ~gameOver')
             => IF idx + 1 < numPlayers
                THEN pc' = "win" /\ idx' = idx + 1
                ELSE pc' = "menu"
       /\ (pc = "win" /\ gameOver') => pc' = "done"
       /\ gameOver => UNCHANGED vars]_vars

\* both players are at 0 and the evaluation has reached the second one: the
\* first was evaluated and challenged, the pool had nothing to give
C11_Witness ==
    /\ pc = "win"
    /\ idx = 1
    /\ numberCards[0] = 0
    /\ numberCards[1] = 0
    /\ ~gameOver

\* C12: a refused Dare sets gameOver and makes the actor the winner at once,
\* with no challenge phase, and changes no count, no consecutiveWins, no
\* blocked flag and no pool.
C12_DareRefusedEndsGame ==
    [][\A p \in Players :
          /\ \A t \in getValidatedPlayerIndex(p) : \A response \in {"N", "NO"} :
                (pc = "menu" /\ handleDareCard(p, t, response) /\ UNCHANGED <<name, idx>>)
                => gameOver'
          /\ (HandleActionCard(p, "DARE") /\ gameOver')
                => /\ winner' = name[p]
                   /\ pc' = "done"
                   /\ UNCHANGED <<numberCards, actionCards, consecutiveWins, isBlocked,
                                  numberDeckRemaining, actionDeckRemaining>>]_vars

\* the game is over with a winner who still holds number and action cards
\* while the other player is blocked: no win evaluation ends that way
C12_Witness ==
    /\ pc = "done"
    /\ gameOver
    /\ winner = name[0]
    /\ numberCards[0] >= 2
    /\ actionCards[0] >= 1
    /\ isBlocked[1]

\* C13: +2 countered with +4, or +4 countered with +2: the player who showed
\* the +2 draws drawNumber(3), the other player's numberCards are unchanged
\* and both lose one action card (floored at 0).
C13_CounterWithOtherValue ==
    [][\A p \in Players : \A t \in getValidatedPlayerIndex(p) :
       \A amount \in {2, 4} : \A hasCounter \in {"Y", "YES"} :
          LET oppCard == IF amount = 2 THEN "+4" ELSE "+2"
              smaller == IF amount = 2 THEN p ELSE t
              other   == IF amount = 2 THEN t ELSE p
          IN  (pc = "menu" /\ handleDrawCard(p, amount, t, hasCounter, oppCard) /\ menuAgain)
              => /\ numberCards'[smaller] =
                        numberCards[smaller] + Min(3, numberDeckRemaining)
                 /\ numberCards'[other] = numberCards[other]
                 /\ numberDeckRemaining' = numberDeckRemaining - Min(3, numberDeckRemaining)
                 /\ actionCards'[p] = Max(0, actionCards[p] - 1)
                 /\ actionCards'[t] = Max(0, actionCards[t] - 1)
                 /\ actionDeckRemaining' = actionDeckRemaining]_vars

\* the menu with 3 number cards in the pool and an action card in each hand:
\* the exchange can be played with the full draw of 3 and two cards shed
C13_Witness ==
    /\ pc = "menu"
    /\ numberDeckRemaining = 3
    /\ actionCards[0] = 1
    /\ actionCards[1] = 1
    /\ numberCards[0] = 1
    /\ numberCards[1] = 1

\* C14: for the 7 of any player, winner of the round or not, the target gets
\* drawNumber(2) number cards and drawAction(1) action cards, each cut to
\* what its pool holds: with 1 number card and 0 action cards left the target
\* gets 1 and 0 and both pools end at 0.
C14_SevenPenalty ==
    [][\A t \in getValidatedPlayerIndex(idx) :
          (EffectsStep(t) /\ playedCards[idx] = 7)
          => /\ numberCards'[t] = numberCards[t] + Min(2, numberDeckRemaining)
             /\ actionCards'[t] = actionCards[t] + Min(1, actionDeckRemaining)
             /\ numberCards'[idx] = numberCards[idx]
             /\ actionCards'[idx] = actionCards[idx]
             /\ (numberDeckRemaining = 1 /\ actionDeckRemaining = 0)
                   => /\ numberCards'[t] = numberCards[t] + 1
                      /\ actionCards'[t] = actionCards[t]
                      /\ numberDeckRemaining' = 0
                      /\ actionDeckRemaining' = 0]_vars

\* the first player's 7 has been applied, the second player holds the higher
\* card: the 7 did not win the round, and the pools are empty after it
C14_Witness ==
    /\ pc = "resolve"
    /\ playedCards[0] = 7
    /\ playedCards[1] = 9
    /\ numberDeckRemaining = 0
    /\ actionDeckRemaining = 0
    /\ numberCards[1] >= 1

\* C15: the steal of a 0 moves one number card from the target to the player
\* of the 0: the number cards in all hands and both pools stay as they are;
\* from a target with no number card nothing moves.
C15_StealTransfersOneCard ==
    [][\A t \in getValidatedPlayerIndex(idx) :
          (EffectsStep(t) /\ playedCards[idx] = 0)
          => /\ IF numberCards[t] > 0
                THEN /\ numberCards'[idx] = numberCards[idx] + 1
                     /\ numberCards'[t] = numberCards[t] - 1
                ELSE numberCards' = numberCards
             /\ \A o \in Players \ {idx, t} : numberCards'[o] = numberCards[o]
             /\ sumFrom(0, numberCards') = sumFrom(0, numberCards)
             /\ UNCHANGED <<actionCards, numberDeckRemaining, actionDeckRemaining>>]_vars

\* the second player's 0 has been handled and the first player, the target,
\* holds no number card: the last card was taken, or there was none to take
C15_Witness ==
    /\ pc = "resolve"
    /\ playedCards[1] = 0
    /\ playedCards[0] = 3
    /\ numberCards[0] = 0

\* C16: within one number round every steal of a 0 is made before any
\* penalty of a 7 is applied, wherever the players of the 0 and the 7 sit: the
\* round never handles a 0 after it has handled a 7.
C16_StealsBeforePenalties ==
    (pc = "effects" /\ playedCards[idx] = 0)
        => \A j \in Players : j < idx => playedCards[j] # 7

\* C17: in a number round with a participant every 0 / 7 effect comes before
\* the winner resolution, then the bonus evaluation takes every player in
\* player order, and the win evaluation starts, at the first player, only
\* after the bonus evaluation of the last; the bonus evaluation declares no
\* winner.
C17_EffectsResolveBonusWin ==
    [][/\ (pc = "effects" /\ idx + 1 < numPlayers)
             => (pc' = "effects" /\ idx' = idx + 1)
       /\ (pc = "effects" /\ idx + 1 = numPlayers /\ \E i \in Players : playedCards[i] # NoCard)
             => (pc' = "resolve" /\ UNCHANGED consecutiveWins)
       /\ pc' = "resolve" => (pc = "effects" /\ idx + 1 = numPlayers)
       /\ pc = "resolve" => (pc' = "bonus" /\ idx' = 0)
       /\ pc = "bonus"
             => /\ IF idx + 1 < numPlayers
                   THEN pc' = "bonus" /\ idx' = idx + 1
                   ELSE pc' = "win" /\ idx' = 0
                /\ UNCHANGED <<gameOver, winner>>
       /\ (pc' = "win" /\ pc # "win") => (pc = "bonus" /\ idx + 1 = numPlayers)]_vars

\* the bonus evaluation is about to run for the first player, who has two
\* wins in a row and no number card left; the win evaluation has not run yet
\* and will see what the bonus penalty leaves
C17_Witness ==
    /\ pc = "bonus"
    /\ idx = 0
    /\ consecutiveWins[0] >= 2
    /\ numberCards[0] = 0
    /\ numberDeckRemaining >= 2

\* C18: the winners of a number round are the players who declared a card
\* and whose declared card is the highest declared one, whatever the counts
\* are and whatever the steals and penalties of the round do; the player who
\* wins alone is the one winner resolution rewards.
C18_WinnersAreMaxDeclared ==
    [][/\ pc \in {"effects", "resolve"}
             => /\ {winners[k] : k \in 1 .. Len(winners)} =
                       {i \in Players :
                           /\ playedCards[i] # NoCard
                           /\ \A j \in Players : playedCards[j] <= playedCards[i]}
                /\ Len(winners) = Cardinality({winners[k] : k \in 1 .. Len(winners)})
       /\ (pc = "effects" /\ pc' # "menu")
             => (winners' = winners /\ playedCards' = playedCards)
       /\ \A i \in Players :
             (pc = "resolve" /\ consecutiveWins'[i] = consecutiveWins[i] + 1)
             => /\ playedCards[i] # NoCard
                /\ \A j \in Players \ {i} : playedCards[j] < playedCards[i]]_vars

\* the second player declared the highest card, had the only number card
\* stolen by the first player's 0, and is still the one winner
C18_Witness ==
    /\ pc = "resolve"
    /\ playedCards[0] = 0
    /\ playedCards[1] = 9
    /\ winners = <<1>>
    /\ numberCards[1] = 0
    /\ numberCards[0] >= 1

\* C19: an uncountered Block sets the target's blocked flag and costs the
\* actor one action card; the flag stays until the next number round, where
\* the flagged players declare no card and every flag is cleared; no flag is
\* set during a round, so every flag is false after any number round.
C19_BlockedForOneRound ==
    [][/\ \A p \in Players : \A t \in getValidatedPlayerIndex(p) :
          \A counter \in {"N", "NO"} :
             (pc = "menu" /\ handleBlockCard(p, t, counter) /\ menuAgain)
             => /\ isBlocked'[t]
                /\ \A o \in Players \ {t} : isBlocked'[o] = isBlocked[o]
                /\ actionCards'[p] = Max(0, actionCards[p] - 1)
       /\ (pc = "menu" /\ pc' # "effects")
             => \A i \in Players : isBlocked[i] => isBlocked'[i]
       /\ (pc = "menu" /\ pc' = "effects")
             => \A i \in Players :
                   /\ isBlocked[i] <=> playedCards'[i] = NoCard
                   /\ ~isBlocked'[i]
       /\ pc \notin {"menu", "done"}
             => \A i \in Players : ~isBlocked[i] /\ ~isBlocked'[i]]_vars

\* the second player was blocked, has been skipped by this round, whose
\* winner is being resolved, and is not blocked any more
C19_Witness ==
    /\ pc = "resolve"
    /\ playedCards[1] = NoCard
    /\ playedCards[0] # NoCard
    /\ ~isBlocked[1]

\* C20: a number round in which every player is blocked clears the blocked
\* flags and changes nothing else: no count, no consecutiveWins, no pool; it
\* returns to the menu without winner resolution, bonus or win evaluation.
C20_AllBlockedRound ==
    [][/\ (pc = "menu" /\ pc' = "effects" /\ \A i \in Players : isBlocked[i])
             => /\ \A i \in Players : ~isBlocked'[i] /\ playedCards'[i] = NoCard
                /\ UNCHANGED <<numberCards, actionCards, consecutiveWins,
                               numberDeckRemaining, actionDeckRemaining, gameOver, winner>>
       /\ (pc = "effects" /\ \A i \in Players : playedCards[i] = NoCard)
             => /\ pc' = IF idx + 1 < numPlayers THEN "effects" ELSE "menu"
                /\ UNCHANGED <<numberCards, actionCards, consecutiveWins, isBlocked,
                               numberDeckRemaining, actionDeckRemaining, gameOver, winner>>]_vars

\* the round has skipped both players and is at the last of them
C20_Witness ==
    /\ pc = "effects"
    /\ idx = numPlayers - 1
    /\ \A i \in Players : playedCards[i] = NoCard

\* C21: the bonus evaluation acts on a player exactly when that player's
\* consecutiveWins are 2 or more: choice 1 gives the player drawAction(1),
\* choice 2 makes every other player, in player order, draw drawNumber(2)
\* and gives the player nothing; either way the player's consecutiveWins are
\* 0 afterwards.
C21_BonusAtTwoWins ==
    [][pc = "bonus"
          => IF consecutiveWins[idx] >= 2
             THEN /\ consecutiveWins'[idx] = 0
                  /\ BonusStep(1)
                        => /\ actionCards'[idx] =
                                  actionCards[idx] + Min(1, actionDeckRemaining)
                           /\ numberCards' = numberCards
                  /\ BonusStep(2)
                        => /\ numberCards'[idx] = numberCards[idx]
                           /\ actionCards' = actionCards
                           /\ \A o \in Players \ {idx} :
                                 LET before == Cardinality({q \in Players \ {idx} : q < o})
                                     left == Max(0, numberDeckRemaining - 2 * before)
                                 IN  numberCards'[o] = numberCards[o] + Min(2, left)
             ELSE UNCHANGED <<numberCards, actionCards, consecutiveWins,
                              numberDeckRemaining, actionDeckRemaining>>]_vars

\* C22: a countered Block costs actor and target one number card and one
\* action card each (floored at 0) and blocks nobody; an uncountered Block
\* sets the target's blocked flag and no other, costs the actor one action
\* card and changes no other count.
C22_Block ==
    [][\A p \in Players : \A t \in Players \ {p} :
          /\ \A counter \in {"Y", "YES"} :
                (pc = "menu" /\ handleBlockCard(p, t, counter) /\ menuAgain)
                => /\ \A i \in {p, t} :
                         /\ numberCards'[i] = Max(0, numberCards[i] - 1)
                         /\ actionCards'[i] = Max(0, actionCards[i] - 1)
                   /\ isBlocked' = isBlocked
          /\ \A counter \in {"N", "NO"} :
                (pc = "menu" /\ handleBlockCard(p, t, counter) /\ menuAgain)
                => /\ isBlocked'[t]
                   /\ isBlocked'[p] = isBlocked[p]
                   /\ actionCards'[p] = Max(0, actionCards[p] - 1)
                   /\ actionCards'[t] = actionCards[t]
                   /\ numberCards' = numberCards]_vars

\* the first player has played an uncountered Block with the last action card
\* in hand: the second player is blocked, the first is not
C22_Witness ==
    /\ pc = "menu"
    /\ isBlocked[1]
    /\ ~isBlocked[0]
    /\ actionCards[0] = 0
    /\ actionCards[1] >= 1

\* C23: +2 or +4 without a counter: the target gets drawNumber(N) number
\* cards, the actor loses one action card (floored at 0), and the actor's
\* number cards and the target's action cards stay as they are.
C23_DrawNoCounter ==
    [][\A p \in Players : \A t \in Players \ {p} :
       \A amount \in {2, 4} : \A hasCounter \in {"N", "NO"} :
          (pc = "menu" /\ handleDrawCard(p, amount, t, hasCounter, "+2") /\ menuAgain)
          => /\ numberCards'[t] = numberCards[t] + Min(amount, numberDeckRemaining)
             /\ actionCards'[p] = Max(0, actionCards[p] - 1)
             /\ numberCards'[p] = numberCards[p]
             /\ actionCards'[t] = actionCards[t]]_vars

\* a +4 can be played on a target with the whole draw in the pool
C23_Witness ==
    /\ pc = "menu"
    /\ numberDeckRemaining = 4
    /\ actionCards[0] = 1
    /\ numberCards[1] = 1

\* C24: +N countered with the same +N: actor and target lose one action card
\* each (floored at 0) and draw drawNumber(1) each, the actor first; nobody
\* draws more than one card.
C24_CounterWithSameValue ==
    [][\A p \in Players : \A t \in Players \ {p} :
       \A amount \in {2, 4} : \A hasCounter \in {"Y", "YES"} :
          LET oppCard == IF amount = 2 THEN "+2" ELSE "+4"
          IN  (pc = "menu" /\ handleDrawCard(p, amount, t, hasCounter, oppCard) /\ menuAgain)
              => /\ numberCards'[p] = numberCards[p] + Min(1, numberDeckRemaining)
                 /\ numberCards'[t] =
                        numberCards[t] + Min(1, Max(0, numberDeckRemaining - 1))
                 /\ numberDeckRemaining' = numberDeckRemaining - Min(2, numberDeckRemaining)
                 /\ actionCards'[p] = Max(0, actionCards[p] - 1)
                 /\ actionCards'[t] = Max(0, actionCards[t] - 1)]_vars

\* the equal counter can be played with a card to draw for each side and a
\* card to shed in each hand
C24_Witness ==
    /\ pc = "menu"
    /\ numberDeckRemaining = 2
    /\ actionCards[0] = 1
    /\ actionCards[1] = 1
    /\ numberCards[0] = 0

\* C25: Truth: without an answer, penalty 1 gives the actor drawAction(2) and
\* the target drawNumber(2), penalty 2 gives the target drawNumber(5); with
\* an answer nobody draws; in every case the actor then loses one action card
\* and one number card (each floored at 0).
C25_Truth ==
    [][\A p \in Players : \A t \in Players \ {p} :
          /\ \A response \in {"N", "NO"} :
                /\ (pc = "menu" /\ handleTruthCard(p, t, response, 1) /\ menuAgain)
                      => /\ actionCards'[p] =
                                Max(0, actionCards[p] + Min(2, actionDeckRemaining) - 1)
                         /\ numberCards'[t] =
                                numberCards[t] + Min(2, numberDeckRemaining)
                         /\ numberCards'[p] = Max(0, numberCards[p] - 1)
                         /\ actionCards'[t] = actionCards[t]
                /\ (pc = "menu" /\ handleTruthCard(p, t, response, 2) /\ menuAgain)
                      => /\ numberCards'[t] =
                                numberCards[t] + Min(5, numberDeckRemaining)
                         /\ actionCards'[p] = Max(0, actionCards[p] - 1)
                         /\ numberCards'[p] = Max(0, numberCards[p] - 1)
                         /\ actionDeckRemaining' = actionDeckRemaining
                         /\ actionCards'[t] = actionCards[t]
          /\ \A response \in {"Y", "YES"} : \A choice \in 1 .. 2 :
                (pc = "menu" /\ handleTruthCard(p, t, response, choice) /\ menuAgain)
                => /\ actionCards'[p] = Max(0, actionCards[p] - 1)
                   /\ numberCards'[p] = Max(0, numberCards[p] - 1)
                   /\ numberCards'[t] = numberCards[t]
                   /\ actionCards'[t] = actionCards[t]
                   /\ UNCHANGED <<numberDeckRemaining, actionDeckRemaining>>]_vars

\* Truth can be played with a card of each kind in the actor's hand and
\* cards in both pools
C25_Witness ==
    /\ pc = "menu"
    /\ numberCards[0] = 1
    /\ actionCards[0] = 1
    /\ numberDeckRemaining = 4
    /\ actionDeckRemaining = 1

\* C26: an input that is not valid is refused before anything is done with
\* it: a card of a round is always one of 0..9, and no effect lands on the
\* player it comes from: the 7 of a player does not make that player draw, a
\* Block does not block its actor, a refused Truth does not make the actor
\* draw number cards, and a challenge costs the challenged player no action
\* card.
C26_InvalidIntentRefused ==
    [][/\ (pc = "menu" /\ pc' = "effects")
             => \A i \in Players : ~isBlocked[i] => playedCards'[i] \in 0 .. 9
       /\ (pc = "effects" /\ playedCards[idx] = 7)
             => /\ numberCards'[idx] = numberCards[idx]
                /\ actionCards'[idx] = actionCards[idx]
       /\ \A p \in Players :
             /\ (HandleActionCard(p, "BLOCK") \/ HandleActionCard(p, "SKIP"))
                   => isBlocked'[p] = isBlocked[p]
             /\ HandleActionCard(p, "TRUTH") => numberCards'[p] <= numberCards[p]
       /\ (pc = "win" /\ numberCards[idx] = 0 /\ ~gameOver')
             => actionCards'[idx] = actionCards[idx]]_vars

\* both players declared 7 and the first 7 has been applied: the second
\* player, not the first, has drawn the pool empty
C26_Witness ==
    /\ pc = "effects"
    /\ idx = 1
    /\ playedCards[0] = 7
    /\ playedCards[1] = 7
    /\ numberDeckRemaining = 0
    /\ numberCards[0] = 0
    /\ numberCards[1] >= 2

\* C27: no step of a number round and no action card raises the number
\* cards in play, the hands and the pool together; manual adjustment is the
\* one operation that can.
C27_NumberCardsNeverIncrease ==
    [][\/ ManualStep
       \/ sumFrom(0, numberCards') + numberDeckRemaining'
             <= sumFrom(0, numberCards) + numberDeckRemaining]_vars

\* a tie is about to be resolved with an empty pool and a card in each hand:
\* two cards are shed and none can be drawn
C27_Witness ==
    /\ pc = "resolve"
    /\ Len(winners) = numPlayers
    /\ numberDeckRemaining = 0
    /\ \A i \in Players : numberCards[i] >= 2

C29_SetupTwoToSixPlayers ==
    /\ \A n \in 2 .. 6 : n \in SetupPlayerCounts
    /\ Cardinality(DOMAIN numberCards) \in 2 .. 6

\* C30: in the web app at most one resolution of a number round is in
\* flight: while the callback of resolveRound for one played card is
\* scheduled and has not run, no second card is taken from the hand and no
\* second callback is scheduled.
C30_OneResolutionInFlight ==
    Cardinality({k \in 1 .. Len(game.timeouts) :
                    game.timeouts[k].kind = "resolveRound"}) <= 1

\* C31: with every prompt answered in the end, a number round that has
\* started comes back to the menu or ends the game, and an action card is
\* back at the menu or has ended the game when its handler returns; nothing
\* is left half done and nothing runs forever.
C31_RoundAndActionTerminate ==
    /\ inRound ~> (pc \in {"menu", "done"})
    /\ [][\A p \in Players : \A a \in ActionStrings :
             HandleActionCard(p, a) => pc' \in {"menu", "done"}]_vars

\* a round has run to its end through a challenge: the first player won with
\* the last card, the challenge found the pool empty, and the menu is back
C31_Witness ==
    /\ pc = "menu"
    /\ ~gameOver
    /\ consecutiveWins[0] = 1
    /\ numberCards[0] = 0

\* C32: in the web app a side blocked by a Block card is still blocked when
\* the next number round starts, and so sits that round out: the step that
\* opens the next round (roundCount goes up by one) leaves the flag of a
\* blocked side set, unless both sides are blocked and the round is skipped.
C32_BlockLastsIntoNextRound ==
    [][\A s \in Sides :
          (/\ game[s].isBlocked
           /\ ~(game.player.isBlocked /\ game.ai.isBlocked)
           /\ game'.roundCount = game.roundCount + 1)
          => game'[s].isBlocked]_vars

\* C33: in the web app, when the one pending callback resolves a round in
\* which both sides played, with different values and neither a 0 nor a 7,
\* the side with the higher card ends the round with one number card fewer
\* than it began with, the other side with one more if the deck has a card
\* (else with as many), and no hand holds a card twice.  The player's card
\* has left the hand at the click, the count before the round is one higher.
C33_WinnerShedsLoserDraws ==
    [][(/\ ResolveRoundTimeout
        /\ Len(game.timeouts) = 1
        /\ game.timeouts[1].pCard # null
        /\ game.timeouts[1].aiCard # null
        /\ cardValue(game.timeouts[1].pCard) # cardValue(game.timeouts[1].aiCard)
        /\ {cardValue(game.timeouts[1].pCard), cardValue(game.timeouts[1].aiCard)}
              \cap {0, 7} = {})
       => LET pCard == game.timeouts[1].pCard
              aiCard == game.timeouts[1].aiCard
              playerBefore == numberCount(game.player) + 1
              aiBefore == numberCount(game.ai)
              drawn == IF game.numberDeck = {} THEN 0 ELSE 1
          IN  /\ IF cardValue(pCard) > cardValue(aiCard)
                 THEN /\ numberCount(game'.player) = playerBefore - 1
                      /\ numberCount(game'.ai) = aiBefore + drawn
                 ELSE /\ numberCount(game'.ai) = aiBefore - 1
                      /\ numberCount(game'.player) = playerBefore + drawn
              /\ \A s \in Sides : \A c \in NumberIds :
                    game[s].numberHand[c] <= 1 => game'[s].numberHand[c] <= 1]_vars

\* C34: after a Reverse is played by either side, the played card is in
\* neither player's hand.  The human's click removes the card and then swaps;
\* the AI's callback swaps and then looks for the card in the hand the AI has
\* received, so the card stays in the hand handed to the human.
C34_ReverseCardIsDiscarded ==
    [][\A c \in ActionIds :
          (/\ cardValue(c) = "reverse"
           /\ \/ ClickActionCard(c)
              \/ /\ AiPlaysTimeout
                 /\ Len(game.timeouts) = 1
                 /\ game.timeouts[1].aiCard = c)
          => /\ game'.player.actionHand[c] = 0
             /\ game'.ai.actionHand[c] = 0]_vars

\* C35: a player is offered the bonus only as the sole winner of the two most
\* recently played number rounds, rounds sat out blocked included.  The bonus
\* is offered at consecutiveWins 2 and only a sole win adds to the counter, so
\* the claim is that a round won by one player leaves every other player, the
\* blocked ones too, without a streak.
C35_StreakEndsWhenAnotherWins ==
    [][(pc = "resolve" /\ Len(winners) = 1)
          => \A i \in Players \ {winners[1]} : consecutiveWins'[i] = 0]_vars

\* C36: winner is assigned at most once and names a player only when gameOver
\* is true; once gameOver is true no step changes a player's ledger, a deck
\* pool, gameOver or winner.
C36_GameOverIsFinal ==
    [][/\ winner # NoWinner => winner' = winner
       /\ winner' # NoWinner => gameOver'
       /\ gameOver => /\ gameOver'
                      /\ UNCHANGED <<numberCards, actionCards, consecutiveWins,
                                     isBlocked, numberDeckRemaining,
                                     actionDeckRemaining, winner>>]_vars

\* the game has ended by a refused dare: the winner still holds number cards
C36_Witness ==
    /\ gameOver
    /\ pc = "done"
    /\ winner = name[1]
    /\ numberCards[1] > 0
    /\ numberCards[0] > 0

\* C37: in the two-player arbiter, when player A's win has been confirmed
\* uncontested, player B is not evaluated afterwards: winner stays "A" and
\* the ledger is as the confirmation left it.
C37_DeclaredWinnerIsKept ==
    [][(pc = "winB" /\ gameOver /\ winner = name[0])
          => /\ winner' = name[0]
             /\ UNCHANGED <<numberCards, actionCards, numberDeckRemaining>>]_vars

\* C38: wherever a new intent is accepted every player's consecutiveWins is 0
\* or 1; a 2 exists only inside a number round, between winner resolution and
\* the bonus evaluation of that player, and nothing above 2 exists at all.
C38_StreakIsZeroOrOneAtMenu ==
    /\ pc = "menu" => \A i \in Players : consecutiveWins[i] \in {0, 1}
    /\ \A i \in Players :
          \/ consecutiveWins[i] \in {0, 1}
          \/ /\ consecutiveWins[i] = 2
             /\ pc = "bonus"
             /\ i >= idx

\* a second win in a row has just been resolved, the bonus is still to come
C38_Witness ==
    /\ pc = "bonus"
    /\ idx = 0
    /\ consecutiveWins[1] = 2
    /\ consecutiveWins[0] = 0

\* C39: an action card or a win challenge played by a player with
\* actionCards = 0 is carried out all the same: the target is blocked, draws,
\* exchanges number cards with the actor or forfeits, the challenged player
\* draws, and the acting player's actionCards stays 0.
C39_ActionWithoutCard ==
    [][/\ \A p \in Players : \A t \in getValidatedPlayerIndex(p) :
             (pc = "menu" /\ actionCards[p] = 0 /\ pc' \in {"menu", "done"})
             => /\ \A counter \in {"N", "NO"} :
                      handleBlockCard(p, t, counter)
                      => isBlocked'[t] /\ actionCards'[p] = 0
                /\ \A amount \in {2, 4} : \A hasCounter \in {"N", "NO"} :
                      handleDrawCard(p, amount, t, hasCounter, "+2")
                      => /\ numberCards'[t] =
                                numberCards[t] + Min(amount, numberDeckRemaining)
                         /\ actionCards'[p] = 0
                /\ handleReverseCard(p, t)
                      => /\ numberCards'[p] = numberCards[t]
                         /\ numberCards'[t] = numberCards[p]
                /\ \A response \in {"N", "NO"} :
                      handleDareCard(p, t, response)
                      => gameOver' /\ winner' = name[p] /\ actionCards'[p] = 0
       /\ \A c \in getValidatedPlayerIndex(idx) : \A cardType \in DrawCards :
          \A challenge \in {"Y", "YES"} :
             (numberCards[idx] = 0 /\ actionCards[c] = 0 /\ WinStep(challenge, c, cardType))
             => /\ numberCards'[idx] =
                       Min(IF cardType = "+2" THEN 2 ELSE 4, numberDeckRemaining)
                /\ actionCards'[c] = 0]_vars

\* C40: once the web app's state is GAME_OVER it stays GAME_OVER, and no
\* callback and no click on the page starts a round or adds or removes a card
\* of a hand or of a deck ("Play Again" loads the page anew).
C40_GameOverIsStable ==
    [][(game.state = "GAME_OVER" /\ ~ClickPlayAgain)
          => /\ game'.state = "GAME_OVER"
             /\ game'.roundCount = game.roundCount
             /\ game'.numberDeck = game.numberDeck
             /\ game'.actionDeck = game.actionDeck
             /\ \A s \in Sides :
                   /\ game'[s].numberHand = game[s].numberHand
                   /\ game'[s].actionHand = game[s].actionHand]_vars

====
